---- MODULE Spec2Model ----
(***************************************************************************)
(* Closed-form BER evaluation engine of pulse_analysis_                    *)
(* (src/src/ber_toolbox.py, src/src/pulse_toolbox.py,                      *)
(* src/src/pulse_table_utils.py).                                          *)
(*                                                                         *)
(* Real numbers are fixed-point integers: the real x is the integer        *)
(* x * Scale, rounded to nearest with ties away from zero, so that every   *)
(* arithmetic operation is sign-symmetric as IEEE-754 arithmetic is.       *)
(***************************************************************************)
EXTENDS Integers, Sequences, FiniteSets, TLC

\* ------------------------------------------------------------------------
\* Fixed-point arithmetic
\* ------------------------------------------------------------------------

Scale == 10 ^ 3

Abs(x) == IF x < 0 THEN -x ELSE x

Sgn(x) == IF x < 0 THEN -1 ELSE IF x > 0 THEN 1 ELSE 0

\* n / d for integers, d > 0, rounded to nearest, ties away from zero
RoundPos(n, d) ==
    IF n >= 0 THEN (2 * n + d) \div (2 * d) ELSE -((d - 2 * n) \div (2 * d))

\* n / d for integers, d # 0, rounded to nearest, ties away from zero
RoundDiv(n, d) == IF d > 0 THEN RoundPos(n, d) ELSE RoundPos(-n, -d)

\* float product a * b
Mul(a, b) == RoundPos(a * b, Scale)

\* float quotient a / b (b # 0)
Div(a, b) == RoundDiv(a * Scale, b)

\* float of an integer
Flt(n) == n * Scale

\* np.pi
Pi == 3142

\* np.log(2)
Ln2 == 693

\* log(10), the base of the dB conversions 10 ** x
Ln10 == 2303

\* Taylor terms kept by the series below
Terms == 12

RECURSIVE ExpSeries(_, _, _, _)
ExpSeries(x, n, term, acc) ==
    IF n > Terms \/ term = 0 THEN acc
    ELSE LET t == RoundDiv(term * x, n * Scale)
         IN  ExpSeries(x, n + 1, t, acc + t)

\* halvings of the argument before the series of np.exp
RECURSIVE ExpReduce(_)
ExpReduce(x) ==
    IF x <= Scale THEN ExpSeries(x, 1, Scale, Scale)
    ELSE LET h == ExpReduce(RoundDiv(x, 2)) IN Mul(h, h)

\* np.exp(x)
Exp(x) == IF x >= 0 THEN ExpReduce(x) ELSE Div(Scale, ExpReduce(-x))

\* 10 ** x
Pow10(x) == Exp(Mul(x, Ln10))

\* sum over k >= 0 of (-1)^k y^(2k+off) / (2k+off)!, from the term of index n
RECURSIVE TrigSeries(_, _, _, _)
TrigSeries(y2, n, term, acc) ==
    IF n > 2 * Terms \/ term = 0 THEN acc
    ELSE LET t == -RoundDiv(term * y2, n * (n + 1) * Scale)
         IN  TrigSeries(y2, n + 2, t, acc + t)

\* sin on [0, pi/2]
SinQ(y) == TrigSeries(Mul(y, y), 2, y, y)

\* cos on [0, pi/2]
CosQ(y) == TrigSeries(Mul(y, y), 1, Scale, Scale)

\* the angle of [0, pi/2] that r in [0, 2 pi) folds onto
Fold(r) ==
    IF 2 * r <= Pi THEN r
    ELSE IF r <= Pi THEN Pi - r
    ELSE IF 2 * r <= 3 * Pi THEN r - Pi
    ELSE 2 * Pi - r

\* sin on [0, 2 pi): negative on (pi, 2 pi)
SinR(r) == (IF r <= Pi THEN 1 ELSE -1) * SinQ(Fold(r))

\* cos on [0, 2 pi): negative on (pi/2, 3 pi/2]
CosR(r) == (IF 2 * r <= Pi \/ 2 * r > 3 * Pi THEN 1 ELSE -1) * CosQ(Fold(r))

\* np.sin(x): odd, argument reduced modulo 2 pi
Sin(x) == Sgn(x) * SinR(Abs(x) % (2 * Pi))

\* np.cos(x): even, argument reduced modulo 2 pi
Cos(x) == CosR(Abs(x) % (2 * Pi))

\* np.sinc(x) = sin(pi x) / (pi x), 1 at x = 0
Sinc(x) == IF x = 0 THEN Scale ELSE Div(Sin(Mul(Pi, x)), Mul(Pi, x))

\* sum over k >= 0 of (-1)^k (x^2/4)^k / (k!)^2, from the term of index k
RECURSIVE J0Series(_, _, _, _)
J0Series(q, k, term, acc) ==
    IF k > Terms \/ term = 0 THEN acc
    ELSE LET t == -RoundDiv(term * q, k * k * Scale)
         IN  J0Series(q, k + 1, t, acc + t)

\* scipy.special.j0(x): Bessel function of the first kind, order 0 (even)
J0(x) == J0Series(RoundDiv(Mul(x, x), 4), 1, Scale, Scale)

\* largest r in lo..hi with r * r <= n (bisection)
RECURSIVE ISqrtIn(_, _, _)
ISqrtIn(n, lo, hi) ==
    IF lo >= hi THEN lo
    ELSE LET mid == (lo + hi + 1) \div 2
         IN  IF mid * mid <= n THEN ISqrtIn(n, mid, hi) ELSE ISqrtIn(n, lo, mid - 1)

\* np.sqrt(x), x >= 0
Sqrt(x) == ISqrtIn(x * Scale, 0, 2 ^ 15)

\* ------------------------------------------------------------------------
\* Pulse shapes (pulse_toolbox.py); t is a vector (a sequence of floats)
\* ------------------------------------------------------------------------

\* the symbol period T = 1.0 (default of every pulse, and T in the evaluators)
SymbolT == Flt(1)

\* raised_cosine at one sample (every operation of the code is elementwise)
RaisedCosineAt(x, alpha) ==
    LET sinc_part == Sinc(Div(x, SymbolT))
        u         == Div(Mul(2 * alpha, x), SymbolT)
        cos_den   == Flt(1) - Mul(u, u)
        cos_part  == IF cos_den = 0 THEN RoundDiv(Pi, 4)
                     ELSE Div(Cos(Div(Mul(Mul(Pi, alpha), x), SymbolT)), cos_den)
    IN  Mul(sinc_part, cos_part)

raised_cosine(t, alpha) == [j \in 1..Len(t) |-> RaisedCosineAt(t[j], alpha)]

\* btrc_pulse at one sample
BtrcAt(x, alpha) ==
    LET beta      == Div(Mul(2 * SymbolT, Ln2), alpha)
        sinc_term == Sinc(Div(x, SymbolT))
        arg       == Div(Mul(Mul(Pi, alpha), x), SymbolT)
        beta2     == Mul(beta, beta)
        num       == Mul(Mul(Mul(4 * beta, Pi), x), Sin(arg))
                     + Mul(2 * beta2, Cos(arg)) - beta2
        denom     == Mul(4 * Mul(Pi, Pi), Mul(x, x)) + beta2
    IN  Mul(sinc_term, Div(num, denom))

btrc_pulse(t, alpha) == [j \in 1..Len(t) |-> BtrcAt(t[j], alpha)]

\* default beta of elp_pulse, also the driver's pulse_kwargs_dict["elp"]
ElpBeta == 100

\* elp_pulse at one sample
ElpAt(x, alpha) ==
    LET tT == Div(x, SymbolT)
    IN  Mul(Mul(Exp(Mul(RoundDiv(Mul(-Pi, ElpBeta), 2), Mul(tT, tT))), Sinc(tT)),
            Sinc(Mul(alpha, tT)))

elp_pulse(t, alpha) == [j \in 1..Len(t) |-> ElpAt(t[j], alpha)]

\* defaults of iplcp_pulse: mu = 1.6, epsilon = 0.1 (gamma = 1.0: x ** 1.0 = x)
IplcpMu == 1600
IplcpEpsilon == 100

\* the replacement 1e-12 of a zero denominator: the least positive float
DenomFloor == 1

\* envelope of iplcp_pulse at one sample
IplcpEnvelopeAt(x) ==
    LET tau == Div(x, SymbolT)
    IN  Exp(-Mul(Mul(IplcpEpsilon, Mul(Pi, Pi)), Mul(tau, tau)))

\* iplcp_pulse at one sample, before the centre fix of lines 119-120
IplcpFormulaAt(x, alpha) ==
    LET tau          == Div(x, SymbolT)
        pi_alpha_tau == Mul(Mul(Pi, alpha), tau)
        denom        == Mul(Mul(Mul(Pi, Pi), Mul(alpha, alpha)), Mul(tau, tau))
        denom_safe   == IF denom = 0 THEN DenomFloor ELSE denom
        sinc_tau     == Sinc(tau)
        sh           == Sin(RoundDiv(pi_alpha_tau, 2))
        term1        == Mul(4 * (Flt(1) - IplcpMu), Mul(sh, sh))
        term2        == Mul(Mul(Mul(Mul(Pi, alpha), IplcpMu), tau), Sin(pi_alpha_tau))
        bracket      == Div(term1 + term2, denom_safe)
    IN  Mul(IplcpEnvelopeAt(x), Mul(sinc_tau, bracket))

\* np.argmin(np.abs(t)): the first index of a least |t[j]| (t not empty)
ArgMinAbs(t) ==
    CHOOSE c \in 1..Len(t) :
        /\ \A j \in 1..Len(t) : Abs(t[c]) <= Abs(t[j])
        /\ \A j \in 1..(c - 1) : Abs(t[j]) > Abs(t[c])

\* iplcp_pulse: the sample nearest to 0 in the vector is overwritten with the
\* envelope (np.argmin of an empty vector raises; the evaluators never pass one)
iplcp_pulse(t, alpha) ==
    LET center_idx == ArgMinAbs(t)
    IN  [j \in 1..Len(t) |->
            IF j = center_idx THEN IplcpEnvelopeAt(t[j])
            ELSE IplcpFormulaAt(t[j], alpha)]

\* the names register() puts into PULSE_FNS at import
RegisteredNames == {"raised_cosine", "btrc", "elp", "iplcp"}

\* A callable of the caller's own, which the evaluators accept as they accept
\* any g(t, alpha): a table of the rectangular pulse on |t| <= Support, whose
\* lookup raises IndexError for a sample outside the table.
Support == Flt(1) \div 5
PulseError == "IndexError"

\* a pulse function of pulse_toolbox called on (t, alpha), the other
\* parameters at their defaults; "table" is the caller's callable
CallFn(fn, t, alpha) ==
    CASE fn = "raised_cosine" -> raised_cosine(t, alpha)
      [] fn = "btrc"          -> btrc_pulse(t, alpha)
      [] fn = "elp"           -> elp_pulse(t, alpha)
      [] fn = "iplcp"         -> iplcp_pulse(t, alpha)
      [] fn = "table"         -> [j \in 1..Len(t) |-> Flt(1)]

\* the call g(t, alpha) raises
CallRaises(g, t) ==
    g.fn = "table" /\ \E j \in 1..Len(t) : Abs(t[j]) > Support

\* t_max of a callable that is not a truncated pulse
NoTrunc == -1

\* A callable g(t, alpha) is a record: fn names the pulse_toolbox function it
\* ends in, partial tells a functools.partial wrapper (main_ber.py:52) from the
\* function object itself, t_max is the window of truncate_pulse or NoTrunc.
Callable(fn, partial, t_max) ==
    [kind |-> "callable", fn |-> fn, partial |-> partial, t_max |-> t_max]

\* a str pulse reference
Name(n) == [kind |-> "str", name |-> n]

\* the names of the @register decorators of pulse_toolbox.py, in the order the
\* import runs them (lines 41, 54, 74, 80)
Decorated == <<"raised_cosine", "btrc", "elp", "iplcp">>

\* variant of register: the dict is rebuilt with the new entry alone
RegisterAlone(reg, name) == [n \in {name} |-> Callable(name, FALSE, NoTrunc)]

\* register(name)(fn): PULSE_FNS[name] = fn on the dict reg (lines 34-38)
register(reg, name) ==
    [n \in DOMAIN reg \cup {name} |->
        IF n = name THEN Callable(name, FALSE, NoTrunc) ELSE reg[n]]

\* the dict after the first k decorators, from PULSE_FNS = {} of line 32
RECURSIVE RegistryAfter(_)
RegistryAfter(k) ==
    IF k = 0 THEN << >> ELSE register(RegistryAfter(k - 1), Decorated[k])

\* what the @register decorators have put into PULSE_FNS when the import of
\* pulse_toolbox ends: name -> the registered function object
AtImport == RegistryAfter(Len(Decorated))

\* PULSE_FNS: the registry dict of pulse_toolbox (module state)
VARIABLE PULSE_FNS

\* truncate_pulse(base_pulse, t_max) of pulse_table_utils.py
truncate_pulse(base_pulse, t_max) ==
    Callable(base_pulse.fn, base_pulse.partial, t_max)

\* out * (np.abs(t) <= t_max) of g_trunc; out itself without a window
Windowed(out, t, t_max) ==
    IF t_max = NoTrunc THEN out
    ELSE [j \in 1..Len(t) |-> IF Abs(t[j]) <= t_max THEN out[j] ELSE 0]

\* g(t, alpha) for a callable g
Call(g, t, alpha) == Windowed(CallFn(g.fn, t, alpha), t, g.t_max)

\* ------------------------------------------------------------------------
\* Closed-form BER evaluators (ber_toolbox.py)
\* ------------------------------------------------------------------------

\* np.arange(start, stop) of integers
Arange(start, stop) ==
    [j \in 1..(IF stop > start THEN stop - start ELSE 0) |-> start + j - 1]

\* np.arange(start, stop, step) of integers, step > 0:
\* ceil((stop - start) / step) values
ArangeStep(start, stop, step) ==
    [j \in 1..(IF stop > start THEN (stop - start + step - 1) \div step ELSE 0) |->
        start + (j - 1) * step]

\* variant of OddHarmonics: the stop value M is included
OddHarmonicsInclusive(M) ==
    LET m == ArangeStep(1, M + 1, 2) IN [j \in 1..Len(m) |-> Flt(m[j])]

\* m = np.arange(1, M, 2, dtype=float)
OddHarmonics(M) ==
    LET m == ArangeStep(1, M, 2) IN [j \in 1..Len(m) |-> Flt(m[j])]

\* np.prod of a vector (1.0 for the empty vector)
RECURSIVE Prod(_)
Prod(v) == IF Len(v) = 0 THEN Flt(1) ELSE Mul(Prod(SubSeq(v, 1, Len(v) - 1)), v[Len(v)])

\* np.sum of a vector (0.0 for the empty vector)
RECURSIVE Sum(_)
Sum(v) == IF Len(v) = 0 THEN 0 ELSE Sum(SubSeq(v, 1, Len(v) - 1)) + v[Len(v)]

\* what a function call produces: a value, or an exception
Returns(v) == [raised |-> FALSE, value |-> v]
Raises(exc) == [raised |-> TRUE, exc |-> exc]

\* variant of _resolve_pulse: a callable is replaced by the registered
\* function it wraps
ResolveByRegistry(pulse) ==
    IF pulse.kind = "str"
    THEN IF pulse.name \notin DOMAIN PULSE_FNS
         THEN Raises("ValueError") ELSE Returns(PULSE_FNS[pulse.name])
    ELSE IF pulse.fn \in DOMAIN PULSE_FNS THEN Returns(PULSE_FNS[pulse.fn])
    ELSE Returns(pulse)

\* variant of _resolve_pulse: an unknown name falls back to raised_cosine
ResolveWithDefault(pulse) ==
    IF pulse.kind = "str"
    THEN IF pulse.name \notin DOMAIN PULSE_FNS
         THEN Returns(PULSE_FNS["raised_cosine"])
         ELSE Returns(PULSE_FNS[pulse.name])
    ELSE Returns(pulse)

\* _resolve_pulse of ber_toolbox.py: a str is looked up in PULSE_FNS, anything
\* else is returned as it is
_resolve_pulse(pulse) ==
    IF pulse.kind = "str"
    THEN IF pulse.name \notin DOMAIN PULSE_FNS
         THEN Raises("ValueError") ELSE Returns(PULSE_FNS[pulse.name])
    ELSE Returns(pulse)

\* _resolve_pulse of eye_utils.py: a callable is returned as it is, a
\* registered name is looked up, anything else raises
eye_resolve_pulse(pulse_ref) ==
    IF pulse_ref.kind = "callable" THEN Returns(pulse_ref)
    ELSE IF pulse_ref.name \in DOMAIN PULSE_FNS
         THEN Returns(PULSE_FNS[pulse_ref.name])
         ELSE Raises("ValueError")

\* variant of Assign: the array is filled from its end
AssignReversed(arr, idx, v) == [arr EXCEPT ![Len(arr) + 1 - idx] = v]

\* ber[i] = v
Assign(arr, idx, v) == [arr EXCEPT ![idx] = v]

\* variant of Span: the half-span rounded up
SpanCeil(nbits) == (nbits + 1) \div 2

\* N = nbits // 2
Span(nbits) == nbits \div 2

\* variant of Ab: one range -N..N, the position 0 included
AbWithZero(N) == Arange(-N, N + 1)

\* ab = np.concatenate((np.arange(-N, 0), np.arange(1, N + 1)))
Ab(N) == Arange(-N, 0) \o Arange(1, N + 1)

\* coeff = 10 ** (snr_db / 20)
Coeff(snr_db) == Pow10(Div(snr_db, Flt(20)))

\* a_int = 10 ** (-sir_db / 20)
AInt(sir_db) == Pow10(Div(-sir_db, Flt(20)))

\* m_omega = m * omega
MOmega(M, omega) ==
    LET m == OddHarmonics(M) IN [h \in 1..Len(m) |-> Mul(m[h], omega)]

\* exp_term = np.exp(-(m_omega**2)/2) / m
ExpTerm(M, omega) ==
    LET m  == OddHarmonics(M)
        mo == MOmega(M, omega)
    IN  [h \in 1..Len(m) |-> Div(Exp(RoundDiv(-Mul(mo[h], mo[h]), 2)), m[h])]

\* t_vals = np.concatenate(((tau,), tau - ab))
TVals(tau, ab) == <<tau>> \o [j \in 1..Len(ab) |-> tau - Flt(ab[j])]

\* gk = coeff * rng.choice((-1.0, 1.0), size=ab.size) * g_vals[1:]
Gk(coeff, signs, g_vals) ==
    [j \in 1..Len(signs) |-> Mul(Mul(coeff, signs[j]), g_vals[j + 1])]

\* variant of Ri: one interferer more than drawn
RiOneMore(a_int, signs) ==
    [j \in 1..Len(signs) |-> Mul(a_int, signs[j])] \o <<a_int>>

\* r_i = a_int * rng.choice((-1.0, 1.0), size=L)
Ri(a_int, signs) == [j \in 1..Len(signs) |-> Mul(a_int, signs[j])]

\* variant of ProdCos: np.sin in the place of np.cos
ProdSin(m_omega, gk) ==
    [h \in 1..Len(m_omega) |->
        Prod([j \in 1..Len(gk) |-> Sin(Mul(m_omega[h], gk[j]))])]

\* prod_cos = np.prod(np.cos(m_omega[:, None] * gk[None, :]), axis=1)
ProdCos(m_omega, gk) ==
    [h \in 1..Len(m_omega) |->
        Prod([j \in 1..Len(gk) |-> Cos(Mul(m_omega[h], gk[j]))])]

\* variant of ProdBessel: np.sum in the place of np.prod
SumBessel(m_omega, r_i) ==
    [h \in 1..Len(m_omega) |->
        Sum([j \in 1..Len(r_i) |-> J0(Mul(m_omega[h], r_i[j]))])]

\* bessel_prod = np.prod(j0(m_omega[:, None] * r_i[None, :]), axis=1)
ProdBessel(m_omega, r_i) ==
    [h \in 1..Len(m_omega) |->
        Prod([j \in 1..Len(r_i) |-> J0(Mul(m_omega[h], r_i[j]))])]

\* variant of BerOf: the value is clipped to [0, 1]
BerClipped(suma) ==
    LET b == RoundDiv(Flt(1), 2) - Mul(Div(Flt(2), Pi), suma)
    IN  IF b < 0 THEN 0 ELSE IF b > Flt(1) THEN Flt(1) ELSE b

\* 0.5 - (2 / np.pi) * suma
BerOf(suma) == RoundDiv(Flt(1), 2) - Mul(Div(Flt(2), Pi), suma)

\* the values computed before the offsets loop (lines 122-129, 196-201,
\* 263-271); ber_isi has no a_int and no L, ber_cci no ab
Locals(fn, snr_db, sir_db, nbits, M, omega) ==
    [coeff    |-> Coeff(snr_db),
     a_int    |-> IF fn = "isi" THEN 0 ELSE AInt(sir_db),
     ab       |-> IF fn = "cci" THEN << >> ELSE Ab(Span(nbits)),
     m_omega  |-> MOmega(M, omega),
     exp_term |-> ExpTerm(M, omega)]

\* the vectorised pulse call of one iteration: lines 135-136 and 276-277
\* (t_vals * T), line 205 (np.array([tau]))
\* the argument of the pulse call: t_vals * T in ber_isi and ber_cci_isi
\* (lines 136, 277), np.array([tau]) as it is in ber_cci (line 205)
PulseArg(fn, t_vals) ==
    IF fn = "cci" THEN t_vals ELSE [j \in 1..Len(t_vals) |-> Mul(t_vals[j], SymbolT)]

\* g_vals = g(..., alpha) on t_vals
PulseOn(fn, gg, alpha, t_vals) ==
    [t_vals |-> t_vals, g_vals |-> Call(gg, PulseArg(fn, t_vals), alpha)]

PulseCall(fn, gg, alpha, ab, tau) ==
    PulseOn(fn, gg, alpha, IF fn = "cci" THEN <<tau>> ELSE TVals(tau, ab))

\* the pulse call of one iteration raises
PulseRaises(fn, gg, ab, tau) ==
    CallRaises(gg, PulseArg(fn, IF fn = "cci" THEN <<tau>> ELSE TVals(tau, ab)))

\* ber_isi_closed_form, lines 138-143: the taps and the series of one offset
IsiIteration(loc, pc_, signs) ==
    LET g0       == Mul(loc.coeff, pc_.g_vals[1])
        gk       == Gk(loc.coeff, signs, pc_.g_vals)
        prod_cos == ProdCos(loc.m_omega, gk)
        suma     == Sum([h \in 1..Len(loc.m_omega) |->
                        Mul(Mul(loc.exp_term[h], Sin(Mul(loc.m_omega[h], g0))),
                            prod_cos[h])])
    IN  [g0 |-> g0, gk |-> gk, r_i |-> << >>, prod_cos |-> prod_cos,
         prod_bessel |-> << >>, suma |-> suma, ber |-> BerOf(suma)]

\* ber_cci_closed_form, lines 205-210
CciIteration(loc, pc_, signs) ==
    LET g0          == Mul(loc.coeff, pc_.g_vals[1])
        r_i         == Ri(loc.a_int, signs)
        bessel_prod == ProdBessel(loc.m_omega, r_i)
        suma        == Sum([h \in 1..Len(loc.m_omega) |->
                           Mul(Mul(loc.exp_term[h], Sin(Mul(loc.m_omega[h], g0))),
                               bessel_prod[h])])
    IN  [g0 |-> g0, gk |-> << >>, r_i |-> r_i, prod_cos |-> << >>,
         prod_bessel |-> bessel_prod, suma |-> suma, ber |-> BerOf(suma)]

\* ber_cci_isi_closed_form, lines 278-288
JointIteration(loc, pc_, signs_isi, signs_cci) ==
    LET g0          == Mul(loc.coeff, pc_.g_vals[1])
        gk          == Gk(loc.coeff, signs_isi, pc_.g_vals)
        r_i         == Ri(loc.a_int, signs_cci)
        prod_cos    == ProdCos(loc.m_omega, gk)
        prod_bessel == ProdBessel(loc.m_omega, r_i)
        suma        == Sum([h \in 1..Len(loc.m_omega) |->
                           Mul(Mul(Mul(loc.exp_term[h],
                                       Sin(Mul(loc.m_omega[h], g0))),
                                   prod_cos[h]), prod_bessel[h])])
    IN  [g0 |-> g0, gk |-> gk, r_i |-> r_i, prod_cos |-> prod_cos,
         prod_bessel |-> prod_bessel, suma |-> suma, ber |-> BerOf(suma)]

\* ------------------------------------------------------------------------
\* compute_pulse and t_axis (pulse_toolbox.py)
\* ------------------------------------------------------------------------

\* Python's None for an optional str argument; an optional float is a
\* sequence, << >> for None and <<x>> for the float x
None == "None"

\* Binary floating point, for the one place where the rounding of a float
\* decides an integer: the length np.arange computes. A float is m * 2^e with
\* m < 2^Precision, every operation rounded to nearest, ties to even. With
\* this Precision the lengths are those of float64 for every span_T,
\* oversample and T the calls below use.
Precision == 13

\* the float nearest to n / d * 2^e, for n >= 0 and d > 0
RECURSIVE Nearest(_, _, _)
Nearest(n, d, e) ==
    IF n = 0 THEN [m |-> 0, e |-> 0]
    ELSE IF n >= (2 ^ Precision) * d THEN Nearest(n, 2 * d, e + 1)
    ELSE IF n < (2 ^ (Precision - 1)) * d THEN Nearest(2 * n, d, e - 1)
    ELSE IF 2 * (n % d) > d \/ (2 * (n % d) = d /\ (n \div d) % 2 = 1)
         THEN IF (n \div d) + 1 = 2 ^ Precision
              THEN [m |-> 2 ^ (Precision - 1), e |-> e + 1]
              ELSE [m |-> (n \div d) + 1, e |-> e]
         ELSE [m |-> n \div d, e |-> e]

\* float(n) of an int n >= 0
FloatOf(n) == Nearest(n, 1, 0)

\* x + y and x / y of floats x, y >= 0 (y > 0)
FAdd(x, y) ==
    IF x.m = 0 THEN y ELSE IF y.m = 0 THEN x
    ELSE IF x.e <= y.e THEN Nearest(x.m + y.m * 2 ^ (y.e - x.e), 1, x.e)
    ELSE Nearest(x.m * 2 ^ (x.e - y.e) + y.m, 1, y.e)

FDiv(x, y) == Nearest(x.m, y.m, x.e - y.e)

\* ceil(x) as an int
FCeil(x) ==
    IF x.e >= 0 THEN x.m * 2 ^ x.e
    ELSE (x.m + 2 ^ (-x.e) - 1) \div 2 ^ (-x.e)

\* k * x in the fixed-point representation of the rest of the model
Fixed(k, x) ==
    IF x.e >= 0 THEN Flt(k * x.m * 2 ^ x.e)
    ELSE RoundDiv(k * x.m * Scale, 2 ^ (-x.e))

\* an int argument, isinstance(v, int)
IntArg(v) == [type |-> "int", value |-> v]

\* t_axis raises ValueError: not isinstance(oversample, int) or oversample <= 0
TAxisRaises(oversample) == oversample.type # "int" \/ oversample.value <= 0

\* the length of np.arange(-span_T * T, span_T * T + dt, dt):
\* ceil((stop - start) / dt) in float arithmetic, dt = T / oversample
ArangeLen(span_T, oversample, T) ==
    FCeil(FDiv(FAdd(FAdd(FloatOf(span_T * T), FDiv(FloatOf(T), FloatOf(oversample))),
                    FloatOf(span_T * T)),
               FDiv(FloatOf(T), FloatOf(oversample))))

\* t_axis(span_T, oversample, T) for ints span_T >= 0, oversample > 0, T > 0:
\* the samples start + j * dt and dt, in fixed point
TAxisOn(span_T, oversample, T) ==
    [t  |-> [j \in 1..ArangeLen(span_T, oversample, T) |->
                Fixed(j - 1, FDiv(FloatOf(T), FloatOf(oversample)))
                    - Flt(span_T * T)],
     dt |-> Fixed(1, FDiv(FloatOf(T), FloatOf(oversample)))]

\* t_axis(span_T, oversample) with T = 1.0, the default
t_axis(span_T, oversample) == TAxisOn(span_T, oversample, SymbolT \div Scale)

\* h ** 2, elementwise
Squares(h) == [j \in 1..Len(h) |-> Mul(h[j], h[j])]

\* h / c, elementwise
Scaled(h, c) == [j \in 1..Len(h) |-> Div(h[j], c)]

\* np.trapz(y, dx=dt)
Trapz(y, dt) ==
    Sum([j \in 1..(Len(y) - 1) |-> Mul(dt, RoundDiv(y[j] + y[j + 1], 2))])

\* np.max(np.abs(h)), h not empty
MaxAbs(h) == CHOOSE v \in {Abs(h[j]) : j \in 1..Len(h)} :
                \A j \in 1..Len(h) : Abs(h[j]) <= v

\* the energy threshold 1e-12 is below the least positive float: energy > 0
_normalize_energy_discrete(h) ==
    LET energy == Sum(Squares(h))
    IN  IF energy > 0 THEN Scaled(h, Sqrt(energy)) ELSE h

_normalize_energy_continuous(h, dt) ==
    LET energy == Trapz(Squares(h), dt)
    IN  IF energy > 0 THEN Scaled(h, Sqrt(energy)) ELSE h

_normalize_amplitude(h) ==
    LET max_val == MaxAbs(h)
    IN  IF max_val > 0 THEN Scaled(h, max_val) ELSE h

\* the normalize modes compute_pulse knows
NormalizeModes == {"discrete", "continuous", "amplitude"}

\* compute_pulse raises ValueError
ComputePulseRaises(name, normalize, dt) ==
    \/ name \notin DOMAIN PULSE_FNS
    \/ normalize \notin {None, ""} /\ normalize = "continuous" /\ dt = << >>
    \/ normalize \notin {None, ""} /\ normalize \notin NormalizeModes

\* compute_pulse when it does not raise: [h, energy], energy None when
\* neither a normalisation nor return_energy computed one
\* lines 175-187: h after the normalisation asked for (None and "" ask for none)
Normalized(h0, normalize, dt) ==
    CASE normalize = "discrete"   -> _normalize_energy_discrete(h0)
      [] normalize = "continuous" -> _normalize_energy_continuous(h0, dt[1])
      [] normalize = "amplitude"  -> _normalize_amplitude(h0)
      [] OTHER                    -> h0

\* the energy the normalisation measured (of the samples before scaling), or
\* that of the samples returned when nothing was normalised
EnergyOf(h0, h, normalize, dt) ==
    CASE normalize = "discrete"   -> Sum(Squares(h0))
      [] normalize = "continuous" -> Trapz(Squares(h0), dt[1])
      [] normalize = "amplitude"  -> Sum(Squares(h0))
      [] OTHER                    -> Sum(Squares(h))

\* lines 175-195 on the samples h0 of line 172
ComputePulseOn(h0, normalize, dt, return_energy) ==
    [h      |-> Normalized(h0, normalize, dt),
     energy |-> IF return_energy
                THEN <<EnergyOf(h0, Normalized(h0, normalize, dt), normalize, dt)>>
                ELSE << >>]

compute_pulse(t, name, alpha, normalize, dt, return_energy) ==
    ComputePulseOn(CallFn(PULSE_FNS[name].fn, t, alpha), normalize, dt,
                   return_energy)

\* ------------------------------------------------------------------------
\* Inputs
\* ------------------------------------------------------------------------

MaxNbits == 2
MaxL == 1
MaxM == 4
MaxOffsets == 2
MaxSpan == 1
MaxOversample == 2

\* timing offsets tau/T the calls draw from: 0.05 and 0.25 of the defaults
OffsetValues == {50, 250}

\* roll-off 0.35, SNR 10 dB, SIR -10 dB
Alphas == {350}
SnrValues == {Flt(10)}
SirValues == {-Flt(10)}

\* omega = 0.10, the default of the three evaluators
Omega == 100

\* sequences over S of length 0..n
SeqsUpTo(S, n) == UNION {[1..k -> S] : k \in 0..n}

\* variant of SignVectors: one draw, repeated for every tap
SharedSign(n) == {[j \in 1..n |-> s] : s \in {-Flt(1), Flt(1)}}

\* what rng.choice((-1.0, 1.0), size=n) can return
SignVectors(n) == [1..n -> {-Flt(1), Flt(1)}]

\* pulse references: registered names, an unknown name, and callables (a
\* registered function object, and a functools.partial wrapper truncated to
\* |t| <= 1.0 as main_ber.py:129-130 builds it)
PulseRefs ==
    {Name(n) : n \in RegisteredNames \cup {"INVALID"}}
    \cup {Callable("btrc", FALSE, NoTrunc), truncate_pulse(Callable("elp", TRUE, NoTrunc), Flt(1)),
          Callable("table", FALSE, NoTrunc)}

\* rng argument: None, or the caller's np.random.Generator ("Seeded" is a
\* generator the caller made from a seed it can use again)
RngArgs == {None, "Generator"}

IsiCalls ==
    [fn : {"isi"}, pulse : PulseRefs, alpha : Alphas, snr_db : SnrValues,
     sir_db : {0}, nbits : 0..MaxNbits, L : {0}, M : 0..MaxM, omega : {Omega},
     offsets : SeqsUpTo(OffsetValues, MaxOffsets), rng : RngArgs]

CciCalls ==
    [fn : {"cci"}, pulse : PulseRefs, alpha : Alphas, snr_db : SnrValues,
     sir_db : SirValues, nbits : {0}, L : 0..MaxL, M : 0..MaxM, omega : {Omega},
     offsets : SeqsUpTo(OffsetValues, MaxOffsets), rng : RngArgs]

JointCalls ==
    [fn : {"joint"}, pulse : PulseRefs, alpha : Alphas, snr_db : SnrValues,
     sir_db : SirValues, nbits : 0..MaxNbits, L : 0..MaxL, M : 0..MaxM,
     omega : {Omega}, offsets : SeqsUpTo(OffsetValues, MaxOffsets), rng : RngArgs]

ComputePulseCalls ==
    [fn : {"compute_pulse"}, name : RegisteredNames \cup {"INVALID"},
     alpha : Alphas, span_T : 0..MaxSpan, oversample : 1..MaxOversample,
     normalize : {None, "", "energy"} \cup NormalizeModes,
     with_dt : BOOLEAN, return_energy : BOOLEAN]

\* the pulses of the calls that vary M or leave rng out
SlicePulses == {Name("raised_cosine"), Name("iplcp")}

\* The evaluator calls explored: every pulse, span, interferer count and
\* offsets sequence with M = MaxM and a caller's generator; every M with a
\* slice pulse and at most one offset; rng omitted with a slice pulse.
Explored(c) ==
    \/ c.M = MaxM /\ c.rng = "Generator"
    \/ c.pulse \in SlicePulses /\ Len(c.offsets) <= 1 /\ c.rng = "Generator"
    \/ c.pulse \in SlicePulses /\ c.M = MaxM /\ c.rng = None

\* calls whose series sum leaves [-pi/4, pi/4]: two harmonics (M = MaxM), no
\* ISI tap, a main tap near +7 (17 dB at tau = 0.05) or near -7 (32 dB at
\* tau = 1.25, where the raised cosine is negative)
OvershootCalls ==
    [fn : {"isi"}, pulse : {Name("raised_cosine")}, alpha : Alphas,
     snr_db : {Flt(17), Flt(32)}, sir_db : {0}, nbits : {0}, L : {0},
     M : {MaxM}, omega : {Omega}, offsets : {<<50>>, <<50 + Flt(1) + 200>>},
     rng : {"Generator"}]

EvaluatorCalls ==
    {c \in IsiCalls \cup CciCalls \cup JointCalls : Explored(c)} \cup OvershootCalls

\* t_axis(span_T, oversample, T): oversample an int of either sign or a float
\* (2.0 and 2.5), T = 1.0 or 2.0
MaxAxisSpan == 2
MaxAxisOversample == 3

Oversamples ==
    {IntArg(v) : v \in -1..MaxAxisOversample}
        \cup {[type |-> "float", value |-> v] : v \in {Flt(2), Flt(2) + Scale \div 2}}

TAxisCalls ==
    [fn : {"t_axis"}, span_T : 0..MaxAxisSpan, oversample : Oversamples,
     T : {1, 2}]

Calls == EvaluatorCalls \cup ComputePulseCalls \cup TAxisCalls

\* the calls made twice from one seed state: raised_cosine, every span and
\* interferer count, up to two offsets
SeededCalls ==
    {[c EXCEPT !.rng = "Seeded"] :
        c \in {d \in EvaluatorCalls :
                 /\ d.rng = "Generator" /\ d.M = MaxM
                 /\ d.pulse = Name("raised_cosine") /\ Len(d.offsets) <= 2}}

\* ------------------------------------------------------------------------
\* State
\* ------------------------------------------------------------------------

VARIABLES
    call,         \* the call in progress: function and arguments
    pc,           \* "call" | "loop" | "returned" | "raised"
    g,            \* the callable _resolve_pulse returned (<< >> before)
    loc,          \* coeff, a_int, ab, m_omega, exp_term (<< >> before)
    rng,          \* draws consumed from the caller's and the default generator
    ber,          \* the array np.empty(len(offsets)) being filled
    i,            \* offsets processed so far
    last,         \* locals of the last loop iteration
    draws,        \* the rng.choice calls made so far, in order
    pulse_calls,  \* pulse evaluations made so far
    ret,          \* what the call returned or raised
    tape,         \* signs a seeded generator has produced from its seed state
    first,        \* what the first of two calls from one seed state returned
    heap,         \* the ndarrays alive, by object identity
    outs,         \* the arrays the truncated pulse has returned, oldest first
    results,      \* the driver's result dicts, entries in insertion order
    progress,     \* the driver's position: loop and configurations done
    suspended     \* a second, concurrent evaluator call while it is not
                  \* running: its locals (<< >> when there is none)

\* the state of one evaluator or compute_pulse call
evaluation == <<call, pc, g, loc, rng, ber, i, last, draws, pulse_calls, ret>>

\* the seeded generator and the repeated call
seeding == <<tape, first>>

\* the arrays of the truncated-pulse calls
arrays == <<heap, outs>>

\* the experiment driver (main_ber.py)
driver == <<results, progress>>

vars == <<evaluation, PULSE_FNS, seeding, arrays, driver, suspended>>

\* an entry of np.empty not assigned yet
Unset == -(10 ^ 6)

NoIteration ==
    [t_vals |-> << >>, g_vals |-> << >>, g0 |-> 0, gk |-> << >>,
     r_i |-> << >>, prod_cos |-> << >>, prod_bessel |-> << >>, suma |-> 0,
     ber |-> Unset, signs_isi |-> << >>, signs_cci |-> << >>]

NoReturn == [kind |-> "none"]

\* nothing called yet: the registry as the import left it, no generator
\* advanced (the caller's, a call's own default one, the global np.random)
Idle ==
    /\ PULSE_FNS = AtImport
    /\ pc = "call"
    /\ g = << >>
    /\ loc = << >>
    /\ rng = [given |-> 0, default |-> 0, made |-> FALSE, np_random |-> 0]
    /\ ber = << >>
    /\ i = 0
    /\ last = NoIteration
    /\ draws = << >>
    /\ pulse_calls = 0
    /\ ret = NoReturn
    /\ tape = << >>
    /\ first = NoReturn

\* no truncated pulse called
NoArrays == heap = << >> /\ outs = << >>

\* the driver not running
NoDriver == results = << >> /\ progress = << >>

\* one call at a time
NoSecondCall == suspended = << >>

Init == Idle /\ NoArrays /\ NoDriver /\ NoSecondCall /\ call \in Calls

IsEvaluator == call.fn \in {"isi", "cci", "joint"}

\* lines 117-131, 192-203, 259-273: resolve the pulse, default the rng,
\* compute the loop-invariant values, allocate the result
Enter ==
    /\ pc = "call"
    /\ IsEvaluator
    /\ IF _resolve_pulse(call.pulse).raised
       THEN /\ pc' = "raised"
            /\ ret' = [kind |-> "raise", exc |-> _resolve_pulse(call.pulse).exc]
            /\ UNCHANGED <<g, loc, rng, ber>>
       ELSE /\ pc' = "loop"
            /\ g' = _resolve_pulse(call.pulse).value
            /\ rng' = [rng EXCEPT !.made = (call.rng = None)]
            /\ loc' = Locals(call.fn, call.snr_db, call.sir_db, call.nbits,
                             call.M, call.omega)
            /\ ber' = [j \in 1..Len(call.offsets) |-> Unset]
            /\ ret' = ret
    /\ UNCHANGED <<call, i, last, draws, pulse_calls>>
    /\ UNCHANGED <<PULSE_FNS, suspended, seeding, arrays, driver>>

\* variant of Consume: the draws always come from the caller's generator
ConsumeCallers(n) == [rng EXCEPT !.given = @ + n]

\* rng.choice((-1.0, 1.0), size=n) on the generator in use
Consume(n) ==
    IF call.rng = None THEN [rng EXCEPT !.default = @ + n]
    ELSE [rng EXCEPT !.given = @ + n]

\* draws consumed so far from the generator in use
Position == IF call.rng = None THEN rng.default ELSE rng.given

Draw(tap, n, at) == [tap |-> tap, size |-> n, at |-> at, offset |-> i + 1]

InLoop == pc = "loop" /\ i < Len(call.offsets)

\* variant of Choice: the draw does not come from the generator the caller
\* seeded
ChoiceUnseeded(n, at) == SignVectors(n)

\* what rng.choice((-1.0, 1.0), size=n) can return at stream position at: any
\* sign vector, except that a generator the caller seeded repeats the values
\* its stream has already shown from that seed state (the tape)
Choice(n, at) ==
    IF call.rng = "Seeded"
    THEN {s \in SignVectors(n) :
            \A k \in 1..n : at + k <= Len(tape) => s[k] = tape[at + k]}
    ELSE SignVectors(n)

\* the stream of the seeded generator once signs were drawn at Position
Shown(signs) ==
    IF call.rng = "Seeded"
    THEN tape \o SubSeq(signs, Len(tape) - Position + 1, Len(signs))
    ELSE tape

\* the locals an iteration leaves behind
Iterated(pc_, it, signs_isi, signs_cci) ==
    pc_ @@ it @@ [signs_isi |-> signs_isi, signs_cci |-> signs_cci]

\* what one iteration assigns: ber[i], the generator's position, the locals
Store(pc_, it, signs_isi, signs_cci, drawn) ==
    /\ last' = Iterated(pc_, it, signs_isi, signs_cci)
    /\ ber' = Assign(ber, i + 1, it.ber)
    /\ rng' = Consume(Len(signs_isi) + Len(signs_cci))
    /\ draws' = draws \o drawn
    /\ tape' = Shown(signs_isi \o signs_cci)

\* variant of PulseRaised: the exception is caught and the offset tried again
PulseRetried(exc) ==
    /\ pulse_calls' = pulse_calls + 1
    /\ UNCHANGED <<pc, ret, rng, ber, i, last, draws, tape>>

\* the pulse call of lines 136, 205, 277 raises: no handler in the evaluator,
\* the exception leaves the call
PulseRaised(exc) ==
    /\ pc' = "raised"
    /\ ret' = [kind |-> "raise", exc |-> exc]
    /\ pulse_calls' = pulse_calls + 1
    /\ UNCHANGED <<rng, ber, i, last, draws, tape>>

\* the iteration went through: the next offset
Advance ==
    /\ i' = i + 1
    /\ pulse_calls' = pulse_calls + 1
    /\ UNCHANGED <<pc, ret>>

\* lines 138-143 after the pulse call pc_ of lines 135-136
IsiDraw(pc_) ==
    \E signs \in Choice(Len(loc.ab), Position) :
        Store(pc_, IsiIteration(loc, pc_, signs), signs, << >>,
              <<Draw("isi", Len(signs), Position)>>)

\* one iteration of the loop of ber_isi_closed_form (lines 133-143)
IsiIter ==
    /\ InLoop
    /\ call.fn = "isi"
    /\ IF PulseRaises("isi", g, loc.ab, call.offsets[i + 1])
       THEN PulseRaised(PulseError)
       ELSE /\ IsiDraw(PulseCall("isi", g, call.alpha, loc.ab, call.offsets[i + 1]))
            /\ Advance
    /\ UNCHANGED <<call, g, loc, PULSE_FNS, suspended, first, arrays, driver>>

\* lines 206-210 after the pulse call pc_ of line 205
CciDraw(pc_) ==
    \E signs \in Choice(call.L, Position) :
        Store(pc_, CciIteration(loc, pc_, signs), << >>, signs,
              <<Draw("cci", Len(signs), Position)>>)

\* one iteration of the loop of ber_cci_closed_form (lines 204-210)
CciIter ==
    /\ InLoop
    /\ call.fn = "cci"
    /\ IF PulseRaises("cci", g, loc.ab, call.offsets[i + 1])
       THEN PulseRaised(PulseError)
       ELSE /\ CciDraw(PulseCall("cci", g, call.alpha, loc.ab, call.offsets[i + 1]))
            /\ Advance
    /\ UNCHANGED <<call, g, loc, PULSE_FNS, suspended, first, arrays, driver>>

\* variant of JointDraw: the interference signs are drawn before the ISI signs
JointDrawCciFirst(pc_) ==
    \E signs_cci \in Choice(call.L, Position) :
        \E signs_isi \in Choice(Len(loc.ab), Position + Len(signs_cci)) :
            Store(pc_, JointIteration(loc, pc_, signs_isi, signs_cci),
                  signs_isi, signs_cci,
                  <<Draw("cci", Len(signs_cci), Position),
                    Draw("isi", Len(signs_isi), Position + Len(signs_cci))>>)

\* lines 278-288 after the pulse call pc_ of lines 276-277
JointDraw(pc_) ==
    \E signs_isi \in Choice(Len(loc.ab), Position) :
        \E signs_cci \in Choice(call.L, Position + Len(signs_isi)) :
            Store(pc_, JointIteration(loc, pc_, signs_isi, signs_cci),
                  signs_isi, signs_cci,
                  <<Draw("isi", Len(signs_isi), Position),
                    Draw("cci", Len(signs_cci), Position + Len(signs_isi))>>)

\* one iteration of the loop of ber_cci_isi_closed_form (lines 274-288): the
\* ISI signs are drawn first, the CCI signs second
JointIter ==
    /\ InLoop
    /\ call.fn = "joint"
    /\ IF PulseRaises("joint", g, loc.ab, call.offsets[i + 1])
       THEN PulseRaised(PulseError)
       ELSE /\ JointDraw(PulseCall("joint", g, call.alpha, loc.ab,
                                   call.offsets[i + 1]))
            /\ Advance
    /\ UNCHANGED <<call, g, loc, PULSE_FNS, suspended, first, arrays, driver>>

\* return ber
Return ==
    /\ pc = "loop"
    /\ i = Len(call.offsets)
    /\ pc' = "returned"
    /\ ret' = [kind |-> "value", value |-> ber]
    /\ UNCHANGED <<call, g, loc, rng, ber, i, last, draws, pulse_calls>>
    /\ UNCHANGED <<PULSE_FNS, suspended, seeding, arrays, driver>>

\* compute_pulse on the axis of t_axis(span_T, oversample)
ComputePulse ==
    /\ pc = "call"
    /\ call.fn = "compute_pulse"
    /\ LET ax == t_axis(call.span_T, call.oversample)
           dt == IF call.with_dt THEN <<ax.dt>> ELSE << >>
       IN  IF ComputePulseRaises(call.name, call.normalize, dt)
           THEN /\ pc' = "raised"
                /\ ret' = [kind |-> "raise", exc |-> "ValueError"]
                /\ pulse_calls' =
                      IF call.name \in DOMAIN PULSE_FNS THEN pulse_calls + 1
                      ELSE pulse_calls
           ELSE /\ pc' = "returned"
                /\ ret' = [kind |-> "value",
                           value |-> compute_pulse(ax.t, call.name, call.alpha,
                                        call.normalize, dt, call.return_energy)]
                /\ pulse_calls' = pulse_calls + 1
    /\ UNCHANGED <<call, g, loc, rng, ber, i, last, draws>>
    /\ UNCHANGED <<PULSE_FNS, suspended, seeding, arrays, driver>>

\* variant of AxisRaised: the call comes back with an empty axis
AxisEmpty(exc) ==
    /\ pc' = "returned"
    /\ ret' = [kind |-> "value", value |-> [t |-> << >>, dt |-> 0]]

\* raise ValueError("oversample must be a positive integer")
AxisRaised(exc) ==
    /\ pc' = "raised"
    /\ ret' = [kind |-> "raise", exc |-> exc]

\* one call of t_axis
TAxis ==
    /\ pc = "call"
    /\ call.fn = "t_axis"
    /\ IF TAxisRaises(call.oversample)
       THEN AxisRaised("ValueError")
       ELSE /\ pc' = "returned"
            /\ ret' = [kind |-> "value",
                       value |-> TAxisOn(call.span_T, call.oversample.value,
                                         call.T)]
    /\ UNCHANGED <<call, g, loc, rng, ber, i, last, draws, pulse_calls>>
    /\ UNCHANGED <<PULSE_FNS, suspended, seeding, arrays, driver>>

Next ==
    Enter \/ IsiIter \/ CciIter \/ JointIter \/ Return \/ ComputePulse \/ TAxis

Spec == Init /\ [][Next]_vars

\* ------------------------------------------------------------------------
\* The same call twice, each time with a generator in the same seed state
\* ------------------------------------------------------------------------

InitSeeded ==
    Idle /\ NoArrays /\ NoDriver /\ NoSecondCall /\ call \in SeededCalls

\* the caller keeps the result and calls again with the same arguments and a
\* generator seeded as the first one was: its stream starts over
CallAgain ==
    /\ pc = "returned"
    /\ call.rng = "Seeded"
    /\ first = NoReturn
    /\ first' = ret
    /\ pc' = "call"
    /\ g' = << >>
    /\ loc' = << >>
    /\ rng' = [rng EXCEPT !.given = 0]
    /\ ber' = << >>
    /\ i' = 0
    /\ last' = NoIteration
    /\ draws' = << >>
    /\ pulse_calls' = 0
    /\ ret' = NoReturn
    /\ UNCHANGED <<call, tape, PULSE_FNS, suspended, arrays, driver>>

NextSeeded == Enter \/ IsiIter \/ CciIter \/ JointIter \/ Return \/ CallAgain

SpecSeeded == InitSeeded /\ [][NextSeeded]_vars

\* ------------------------------------------------------------------------
\* truncate_pulse and the arrays its closures touch (pulse_table_utils.py:34,
\* latex_utils.py:178, test_ber_truncation.py:28)
\* ------------------------------------------------------------------------

MaxT == 2
MaxTruncCalls == 2

\* the modules that define a truncate_pulse in force (latex_utils.py:17 is
\* rebound by latex_utils.py:178)
Variants == {"pulse_table_utils", "latex_utils", "test_ber_truncation"}

\* Base pulses g(t, alpha). holds tells which array a call returns: "fresh",
\* a new array (every function of pulse_toolbox); "stored", the one array the
\* callable keeps (a precomputed table of fn on t); "input", the array t that
\* was passed in.
BasePulses ==
    [fn : {"raised_cosine", "iplcp"}, holds : {"fresh", "stored"}]
    \cup {[fn |-> "identity", holds |-> "input"]}

\* time vectors around the window |t| <= 0.5: inside, on the edge, outside
TruncTimes == SeqsUpTo({-750, -500, 250, 500, 750}, MaxT) \ {<< >>}

TruncCalls ==
    [fn : {"g_trunc"}, variant : Variants, base : BasePulses,
     t_max : {RoundDiv(Flt(1), 2)}, t : TruncTimes, alpha : Alphas]

\* object identities: the caller's t, the table a "stored" base keeps
TimeId == Len(<<"t">>)
TableId == Len(<<"t", "table">>)

\* base_pulse(t, alpha) as a function of its arguments
BaseValues(base, t, alpha) ==
    IF base.holds = "input" THEN t ELSE CallFn(base.fn, t, alpha)

\* the arrays alive before the first call
HeapAtStart(c) ==
    IF c.base.holds = "stored" THEN <<c.t, BaseValues(c.base, c.t, c.alpha)>>
    ELSE <<c.t>>

InitTrunc ==
    /\ Idle
    /\ NoDriver
    /\ NoSecondCall
    /\ call \in TruncCalls
    /\ heap = HeapAtStart(call)
    /\ outs = << >>

\* out = base_pulse(t, alpha): the arrays alive after the call, and out
BaseCall(h, base, alpha) ==
    CASE base.holds = "stored" -> [heap |-> h, out |-> TableId]
      [] base.holds = "input"  -> [heap |-> h, out |-> TimeId]
      [] OTHER ->
           [heap |-> Append(h, BaseValues(base, h[TimeId], alpha)),
            out  |-> Len(h) + 1]

\* variant of Zeroed: the edge |t| = t_max is cut as well
ZeroedAtEdge(out, t, t_max) ==
    [j \in 1..Len(out) |-> IF Abs(t[j]) >= t_max THEN 0 ELSE out[j]]

\* out[np.abs(t) > t_max] = 0.0: the content of out after the assignment
Zeroed(out, t, t_max) ==
    [j \in 1..Len(out) |-> IF Abs(t[j]) > t_max THEN 0 ELSE out[j]]

\* g_trunc of pulse_table_utils: the product is a new array
Multiplied(b, t_max) ==
    [heap |-> Append(b.heap, Windowed(b.heap[b.out], b.heap[TimeId], t_max)),
     out  |-> Len(b.heap) + 1]

\* g_truncated of latex_utils and test_ber_truncation: out is written in
\* place and returned
InPlace(b, t_max) ==
    [heap |-> [b.heap EXCEPT ![b.out] = Zeroed(@, b.heap[TimeId], t_max)],
     out  |-> b.out]

\* truncate_pulse(base_pulse, t_max): the closure is built, nothing is called
Truncate ==
    /\ pc = "call"
    /\ call.fn = "g_trunc"
    /\ pc' = "built"
    /\ UNCHANGED <<call, g, loc, rng, ber, i, last, draws, pulse_calls, ret>>
    /\ UNCHANGED <<PULSE_FNS, suspended, seeding, arrays, driver>>

\* one call g_trunc(t, alpha) of the closure
TruncStep(r) ==
    /\ heap' = r.heap
    /\ outs' = Append(outs, r.out)

TruncCall ==
    /\ pc = "built"
    /\ Len(outs) < MaxTruncCalls
    /\ IF call.variant = "pulse_table_utils"
       THEN TruncStep(Multiplied(BaseCall(heap, call.base, call.alpha), call.t_max))
       ELSE TruncStep(InPlace(BaseCall(heap, call.base, call.alpha), call.t_max))
    /\ pulse_calls' = pulse_calls + 1
    /\ UNCHANGED <<call, pc, g, loc, rng, ber, i, last, draws, ret>>
    /\ UNCHANGED <<PULSE_FNS, suspended, seeding, driver>>

NextTrunc == Truncate \/ TruncCall

SpecTrunc == InitTrunc /\ [][NextTrunc]_vars

\* ------------------------------------------------------------------------
\* Two evaluator calls at once, each on its own generator: one runs, the
\* other waits with its locals; control passes between them at any step
\* ------------------------------------------------------------------------

PairOffsets == {<<50>>, <<50, 250>>}

PairCalls ==
    [fn : {"isi"}, pulse : {Name("raised_cosine"), Name("INVALID")},
     alpha : Alphas, snr_db : SnrValues, sir_db : {0}, nbits : {2}, L : {0},
     M : {MaxM}, omega : {Omega}, offsets : PairOffsets, rng : {"Generator"}]
    \cup
    [fn : {"cci"}, pulse : {Name("raised_cosine")},
     alpha : Alphas, snr_db : SnrValues, sir_db : SirValues, nbits : {0}, L : {1},
     M : {MaxM}, omega : {Omega}, offsets : PairOffsets, rng : {"Generator"}]
    \cup
    [fn : {"joint"}, pulse : {Name("raised_cosine")},
     alpha : Alphas, snr_db : SnrValues, sir_db : SirValues, nbits : {2}, L : {1},
     M : {MaxM}, omega : {Omega}, offsets : PairOffsets, rng : {"Generator"}]

\* the locals of a call c not yet entered, its generator untouched
Fresh(c) ==
    [call |-> c, pc |-> "call", g |-> << >>, loc |-> << >>,
     rng |-> [given |-> 0, default |-> 0, made |-> FALSE, np_random |-> 0],
     ber |-> << >>, i |-> 0, last |-> NoIteration, draws |-> << >>,
     pulse_calls |-> 0, ret |-> NoReturn]

\* the locals of the call that is running
Running ==
    [call |-> call, pc |-> pc, g |-> g, loc |-> loc, rng |-> rng, ber |-> ber,
     i |-> i, last |-> last, draws |-> draws, pulse_calls |-> pulse_calls,
     ret |-> ret]

\* variant of Resumed: the two calls fill one and the same output array
ResumedOnSharedBer == [suspended.frame EXCEPT !.ber = ber]

\* the locals the waiting call goes on with: its own, as it left them
Resumed == suspended.frame

InitPair ==
    /\ Idle /\ NoArrays /\ NoDriver
    /\ call \in PairCalls
    /\ \E c \in PairCalls :
          suspended = [id |-> 2, frame |-> Fresh(c), interleaved |-> FALSE]

\* control passes to the waiting call, which has not ended yet
Switch ==
    /\ suspended # << >>
    /\ suspended.frame.pc \in {"call", "loop"}
    /\ LET f == Resumed
       IN  /\ call' = f.call
           /\ pc' = f.pc
           /\ g' = f.g
           /\ loc' = f.loc
           /\ rng' = f.rng
           /\ ber' = f.ber
           /\ i' = f.i
           /\ last' = f.last
           /\ draws' = f.draws
           /\ pulse_calls' = f.pulse_calls
           /\ ret' = f.ret
    /\ suspended' =
          [id |-> 3 - suspended.id, frame |-> Running,
           interleaved |-> suspended.interleaved
                              \/ (pc = "loop" /\ suspended.frame.pc = "loop")]
    /\ UNCHANGED <<PULSE_FNS, seeding, arrays, driver>>

NextPair == Enter \/ IsiIter \/ CciIter \/ JointIter \/ Return \/ Switch

SpecPair == InitPair /\ [][NextPair]_vars

\* ------------------------------------------------------------------------
\* The experiment driver (main_ber.py): six loops filling six result dicts
\* ------------------------------------------------------------------------

\* str() of the decimal digits
Digits == <<"0", "1", "2", "3", "4", "5", "6", "7", "8", "9">>

\* str(n) of an int n >= 0, as the f-strings format L and int(t_max)
RECURSIVE IntStr(_)
IntStr(n) ==
    IF n < 10 THEN Digits[n + 1]
    ELSE IntStr(n \div 10) \o Digits[(n % 10) + 1]

\* the digits after the point of a float's repr: no trailing zero, one digit
\* at least
RECURSIVE FracStr(_, _)
FracStr(f, unit) ==
    Digits[(f \div unit) + 1]
        \o (IF f % unit = 0 THEN "" ELSE FracStr(f % unit, unit \div 10))

\* str(v) of a float v >= 0, as the f-strings format snr, sir and alpha:
\* 10.0 -> "10.0", 0.22 -> "0.22", 0.50 -> "0.5"
FloatStr(v) ==
    IntStr(v \div Scale) \o "." \o FracStr(v % Scale, Scale \div 10)

\* int(t_max)
IntOf(v) == v \div Scale

\* itertools.product(*lists) as a list, the rightmost list advancing fastest
RECURSIVE Product(_)
Product(lists) ==
    IF Len(lists) = 0 THEN << << >> >>
    ELSE LET rest == Product(Tail(lists))
         IN  [k \in 1..(Len(Head(lists)) * Len(rest)) |->
                <<Head(lists)[((k - 1) \div Len(rest)) + 1]>>
                    \o rest[((k - 1) % Len(rest)) + 1]]

\* the global parameters of main_ber.py, lines 26-29, 68-69, 122, 174
snr_values == <<Flt(10), Flt(15)>>
alpha_values == <<220, 350, 500>>
pulse_list == <<"raised_cosine", "btrc", "elp", "iplcp">>
sir_values == <<Flt(10), Flt(20)>>
L_values == <<2, 6>>
truncation_limits == <<Flt(5), Flt(10)>>
alpha_subset == <<220>>

\* the names with a non-empty entry in pulse_kwargs_dict (lines 35-40)
WithKwargs == {"elp", "iplcp"}

\* the pulse lists the driver is run with: the repository's, and the
\* repository's with one name that is not registered
PulseLists ==
    {pulse_list} \cup {[pulse_list EXCEPT ![k] = "INVALID"] : k \in 1..Len(pulse_list)}

DriverRuns == [fn : {"main_ber"}, pulse_list : PulseLists]

\* the configurations of the six loops, in iteration order (lines 48, 74, 99,
\* 124-125, 149-150, 176-177); snr, sir and L are the module-level values in
\* force where a loop does not iterate them
IsiConfigs(pl) ==
    LET p == Product(<<pl, snr_values, alpha_values>>)
    IN  [k \in 1..Len(p) |->
             LET c == p[k]
             IN  [pulse |-> c[1], snr |-> c[2], alpha |-> c[3]]]

CciConfigs(pl) ==
    LET p == Product(<<pl, sir_values, alpha_values, L_values>>)
    IN  [k \in 1..Len(p) |->
             LET c == p[k]
             IN  [pulse |-> c[1], snr |-> Flt(15), sir |-> c[2], alpha |-> c[3],
                  L |-> c[4]]]

JointConfigs(pl) ==
    LET p == Product(<<pl, alpha_values>>)
    IN  [k \in 1..Len(p) |->
             LET c == p[k]
             IN  [pulse |-> c[1], snr |-> Flt(15), sir |-> Flt(15), alpha |-> c[2],
                  L |-> 6]]

TruncIsiConfigs(pl) ==
    LET p == Product(<<truncation_limits, pl, alpha_values>>)
    IN  [k \in 1..Len(p) |->
             LET c == p[k]
             IN  [t_max |-> c[1], pulse |-> c[2], snr |-> Flt(10), alpha |-> c[3]]]

TruncCciConfigs(pl) ==
    LET p == Product(<<truncation_limits, pl, alpha_values>>)
    IN  [k \in 1..Len(p) |->
             LET c == p[k]
             IN  [t_max |-> c[1], pulse |-> c[2], snr |-> Flt(15), sir |-> Flt(10),
                  alpha |-> c[3], L |-> 2]]

TruncJointConfigs(pl) ==
    LET p == Product(<<truncation_limits, pl, alpha_subset>>)
    IN  [k \in 1..Len(p) |->
             LET c == p[k]
             IN  [t_max |-> c[1], pulse |-> c[2], snr |-> Flt(15), sir |-> Flt(15),
                  alpha |-> c[3], L |-> 6]]

\* the keys of lines 49, 75, 100, 126, 151, 178
IsiKey(c) == c.pulse \o "_SNR" \o FloatStr(c.snr) \o "_alpha" \o FloatStr(c.alpha)

\* variant of CciKey: the key leaves L out
CciKeyWithoutL(c) ==
    c.pulse \o "_SNR" \o FloatStr(c.snr) \o "_SIR" \o FloatStr(c.sir)
        \o "_alpha" \o FloatStr(c.alpha)

CciKey(c) ==
    c.pulse \o "_SNR" \o FloatStr(c.snr) \o "_SIR" \o FloatStr(c.sir)
        \o "_alpha" \o FloatStr(c.alpha) \o "_L" \o IntStr(c.L)

JointKey(c) == CciKey(c) \o "_joint"

TruncIsiKey(c) == IsiKey(c) \o "_trunc" \o IntStr(IntOf(c.t_max))

TruncCciKey(c) == CciKey(c) \o "_trunc" \o IntStr(IntOf(c.t_max))

TruncJointKey(c) == CciKey(c) \o "_joint_trunc" \o IntStr(IntOf(c.t_max))

\* partial(base_pulse, **kwargs) if kwargs else base_pulse (lines 51-52)
ResolvedPulse(base_pulse, pulse) ==
    IF pulse \in WithKwargs
    THEN Callable(base_pulse.fn, TRUE, base_pulse.t_max)
    ELSE base_pulse

\* the pulse handed to the evaluator: truncated in the last three loops
\* (lines 129-130)
DriverPulse(base_pulse, c) ==
    IF "t_max" \in DOMAIN c
    THEN truncate_pulse(ResolvedPulse(base_pulse, c.pulse), c.t_max)
    ELSE ResolvedPulse(base_pulse, c.pulse)

\* The value an evaluator call of the driver returns, kept as the call that
\* produced it: the evaluator and the arguments that vary (nbits = 1024,
\* M = 100, omega = 0.10 and the four offsets are the same in every call).
Evaluated(fn, g_, c) ==
    [fn |-> fn, pulse |-> g_, alpha |-> c.alpha, snr_db |-> c.snr,
     sir_db |-> IF "sir" \in DOMAIN c THEN c.sir ELSE 0,
     L |-> IF "L" \in DOMAIN c THEN c.L ELSE 0]

\* variant of DictSet: a new key goes in front of the keys already there
DictSetInFront(d, key, v) == <<[key |-> key, value |-> v]>> \o d

\* d[key] = v on a dict kept as its items in insertion order
DictSet(d, key, v) ==
    IF \E k \in 1..Len(d) : d[k].key = key
    THEN [k \in 1..Len(d) |->
            IF d[k].key = key THEN [key |-> key, value |-> v] ELSE d[k]]
    ELSE Append(d, [key |-> key, value |-> v])

\* the dicts of lines 46, 72, 97, 120, 144, 169 in the order of their loops
DictNames ==
    <<"isi_results", "cci_results", "isi_cci_results", "isi_trunc_results",
      "cci_trunc_results", "isi_cci_trunc_results">>

EmptyResults == [d \in {DictNames[l] : l \in 1..Len(DictNames)} |-> << >>]

InitDriver ==
    /\ Idle
    /\ NoArrays
    /\ NoSecondCall
    /\ call \in DriverRuns
    /\ results = EmptyResults
    /\ progress = [loop |-> 1, done |-> 0]

\* no handler around the loop body: an exception ends the script
Abort(exc) ==
    /\ pc' = "raised"
    /\ ret' = [kind |-> "raise", exc |-> exc]
    /\ UNCHANGED driver

\* results[key] = value, and on to the next configuration or the next loop
Collect(name, key, value, last_one) ==
    /\ results' = [results EXCEPT ![name] = DictSet(@, key, value)]
    /\ progress' = IF last_one THEN [loop |-> progress.loop + 1, done |-> 0]
                   ELSE [progress EXCEPT !.done = @ + 1]
    /\ UNCHANGED <<pc, ret>>

\* one pass of the body of loop number loop over configuration c: resolve
\* the pulse, wrap it, evaluate, store under key
LoopBody(loop, fn, c, key, last_one) ==
    /\ IF _resolve_pulse(Name(c.pulse)).raised
       THEN Abort(_resolve_pulse(Name(c.pulse)).exc)
       ELSE Collect(DictNames[loop], key,
                    Evaluated(fn, DriverPulse(_resolve_pulse(Name(c.pulse)).value, c), c),
                    last_one)
    /\ UNCHANGED <<call, g, loc, rng, ber, i, last, draws, pulse_calls>>
    /\ UNCHANGED <<PULSE_FNS, suspended, seeding, arrays>>

\* the script is inside loop number loop over configs, not through with it
InLoopOf(loop, configs) ==
    /\ call.fn = "main_ber"
    /\ pc = "call"
    /\ progress.loop = loop
    /\ progress.done < Len(configs)

\* lines 48-62
IsiLoop ==
    /\ InLoopOf(1, IsiConfigs(call.pulse_list))
    /\ LoopBody(1, "isi", IsiConfigs(call.pulse_list)[progress.done + 1],
                IsiKey(IsiConfigs(call.pulse_list)[progress.done + 1]),
                progress.done + 1 = Len(IsiConfigs(call.pulse_list)))

\* lines 74-89
CciLoop ==
    /\ InLoopOf(2, CciConfigs(call.pulse_list))
    /\ LoopBody(2, "cci", CciConfigs(call.pulse_list)[progress.done + 1],
                CciKey(CciConfigs(call.pulse_list)[progress.done + 1]),
                progress.done + 1 = Len(CciConfigs(call.pulse_list)))

\* lines 99-115
JointLoop ==
    /\ InLoopOf(3, JointConfigs(call.pulse_list))
    /\ LoopBody(3, "joint", JointConfigs(call.pulse_list)[progress.done + 1],
                JointKey(JointConfigs(call.pulse_list)[progress.done + 1]),
                progress.done + 1 = Len(JointConfigs(call.pulse_list)))

\* lines 124-140
TruncIsiLoop ==
    /\ InLoopOf(4, TruncIsiConfigs(call.pulse_list))
    /\ LoopBody(4, "isi", TruncIsiConfigs(call.pulse_list)[progress.done + 1],
                TruncIsiKey(TruncIsiConfigs(call.pulse_list)[progress.done + 1]),
                progress.done + 1 = Len(TruncIsiConfigs(call.pulse_list)))

\* lines 149-166
TruncCciLoop ==
    /\ InLoopOf(5, TruncCciConfigs(call.pulse_list))
    /\ LoopBody(5, "cci", TruncCciConfigs(call.pulse_list)[progress.done + 1],
                TruncCciKey(TruncCciConfigs(call.pulse_list)[progress.done + 1]),
                progress.done + 1 = Len(TruncCciConfigs(call.pulse_list)))

\* lines 176-194
TruncJointLoop ==
    /\ InLoopOf(6, TruncJointConfigs(call.pulse_list))
    /\ LoopBody(6, "joint", TruncJointConfigs(call.pulse_list)[progress.done + 1],
                TruncJointKey(TruncJointConfigs(call.pulse_list)[progress.done + 1]),
                progress.done + 1 = Len(TruncJointConfigs(call.pulse_list)))

\* the six dicts are complete: the script goes on to the tables (line 201)
\* --- pulse_table_utils.py: from result keys back to table rows ---

PULSE_RENAME ==
    [raised_cosine |-> "\\bfseries RC", btrc |-> "\\bfseries BTRC",
     elp |-> "\\bfseries ELP", iplcp |-> "\\bfseries IPLCP"]

\* the characters of [\d\.] and of \d
NumChars == {"0", "1", "2", "3", "4", "5", "6", "7", "8", "9", "."}
DigitChars == NumChars \ {"."}

\* the literal lit stands in s at position p
StartsWith(s, p, lit) ==
    /\ p + Len(lit) - 1 <= Len(s)
    /\ SubSeq(s, p, p + Len(lit) - 1) = lit

\* the position after the longest run of characters of chars from p on
RECURSIVE RunEnd(_, _, _)
RunEnd(s, p, chars) ==
    IF p <= Len(s) /\ SubSeq(s, p, p) \in chars THEN RunEnd(s, p + 1, chars)
    ELSE p

\* int(s) of a string of digits
RECURSIVE ParseInt(_)
ParseInt(s) ==
    IF Len(s) = 0 THEN 0
    ELSE 10 * ParseInt(SubSeq(s, 1, Len(s) - 1))
            + (CHOOSE d \in 0..9 : Digits[d + 1] = SubSeq(s, Len(s), Len(s)))

\* float(s) of digits, a point and at most three digits, in fixed point
ParseFloat(s) ==
    LET dot  == RunEnd(s, 1, DigitChars)
        frac == SubSeq(s, dot + 1, Len(s))
    IN  Flt(ParseInt(SubSeq(s, 1, dot - 1)))
            + ParseInt(frac) * (10 ^ (3 - Len(frac)))

\* _RE_GENERIC tried with the pulse group ending before position p:
\* _SNR<num>(_SIR<num>)?_alpha<num>(_L<digits>)?(_joint)?(_trunc<digits>)?$
MatchFrom(s, p) ==
    LET e1     == RunEnd(s, p + 4, NumChars)
        hasSir == StartsWith(s, e1, "_SIR") /\ RunEnd(s, e1 + 4, NumChars) > e1 + 4
        e2     == IF hasSir THEN RunEnd(s, e1 + 4, NumChars) ELSE e1
        e3     == RunEnd(s, e2 + 6, NumChars)
        hasL   == StartsWith(s, e3, "_L") /\ RunEnd(s, e3 + 2, DigitChars) > e3 + 2
        e4     == IF hasL THEN RunEnd(s, e3 + 2, DigitChars) ELSE e3
        e5     == IF StartsWith(s, e4, "_joint") THEN e4 + 6 ELSE e4
        hasTr  == StartsWith(s, e5, "_trunc") /\ RunEnd(s, e5 + 6, DigitChars) > e5 + 6
        e6     == IF hasTr THEN RunEnd(s, e5 + 6, DigitChars) ELSE e5
    IN  [ok    |-> /\ StartsWith(s, p, "_SNR") /\ e1 > p + 4
                   /\ StartsWith(s, e2, "_alpha") /\ e3 > e2 + 6
                   /\ e6 = Len(s) + 1,
         pulse |-> SubSeq(s, 1, p - 1),
         snr   |-> SubSeq(s, p + 4, e1 - 1),
         sir   |-> IF hasSir THEN SubSeq(s, e1 + 4, e2 - 1) ELSE None,
         alpha |-> SubSeq(s, e2 + 6, e3 - 1),
         L     |-> IF hasL THEN SubSeq(s, e3 + 2, e4 - 1) ELSE None,
         trunc |-> IF hasTr THEN SubSeq(s, e5 + 6, e6 - 1) ELSE None]

\* _RE_GENERIC.match(key) and its groupdict(), ok = FALSE without a match:
\* the pulse group is lazy, so the first position that lets the rest match
Match(key) ==
    LET ps == {p \in 2..Len(key) : StartsWith(key, p, "_SNR")}
        ok == {p \in ps : MatchFrom(key, p).ok}
    IN  IF ok = {} THEN [ok |-> FALSE]
        ELSE MatchFrom(key, CHOOSE p \in ok : \A q \in ok : p <= q)

\* key.endswith(suffix)
EndsWith(key, suffix) ==
    /\ Len(key) >= Len(suffix)
    /\ SubSeq(key, Len(key) - Len(suffix) + 1, Len(key)) = suffix

\* f"{x:.2f}" of x >= 0 with two decimals at most
Fmt2(x) ==
    IntStr(x \div Scale) \o "."
        \o Digits[((x % Scale) \div 100) + 1]
        \o Digits[(((x % Scale) \div 10) % 10) + 1]

\* joint = bool(key.endswith("_joint"))
JointFlag(key) == EndsWith(key, "_joint")

\* None in a column of numbers
NoneCell == -(10 ^ 9)

\* the row of one key and its BER values (the alpha column as the formatter
\* leaves it, a string); a pulse name outside PULSE_RENAME, which would be
\* upper-cased, does not occur in the keys used here
Row(key, gd, v) ==
    [pulse |-> IF gd.pulse \in DOMAIN PULSE_RENAME THEN PULSE_RENAME[gd.pulse]
               ELSE gd.pulse,
     snr   |-> ParseFloat(gd.snr),
     sir   |-> IF gd.sir # None THEN ParseFloat(gd.sir) ELSE NoneCell,
     alpha |-> Fmt2(ParseFloat(gd.alpha)),
     L     |-> IF gd.L # None THEN ParseInt(gd.L) ELSE NoneCell,
     trunc |-> IF gd.trunc # None THEN ParseInt(gd.trunc) ELSE NoneCell,
     joint |-> JointFlag(key),
     ber   |-> v]

\* results_to_df on a dict: one row per key that matches, in dict order
RECURSIVE results_to_df(_)
results_to_df(d) ==
    IF Len(d) = 0 THEN << >>
    ELSE LET gd == Match(d[1].key)
         IN  (IF ~gd.ok THEN << >> ELSE <<Row(d[1].key, gd, d[1].value)>>)
                 \o results_to_df(Tail(d))

\* the data frames of lines 201-206
DataFrames ==
    [n \in {DictNames[l] : l \in 1..Len(DictNames)} |-> results_to_df(results[n])]

Export ==
    /\ call.fn = "main_ber"
    /\ pc = "call"
    /\ progress.loop = Len(DictNames) + 1
    /\ pc' = "returned"
    /\ ret' = [kind |-> "value", value |-> DataFrames]
    /\ UNCHANGED <<call, g, loc, rng, ber, i, last, draws, pulse_calls>>
    /\ UNCHANGED <<PULSE_FNS, suspended, seeding, arrays, driver>>

NextDriver ==
    \/ IsiLoop \/ CciLoop \/ JointLoop
    \/ TruncIsiLoop \/ TruncCciLoop \/ TruncJointLoop
    \/ Export

SpecDriver == InitDriver /\ [][NextDriver]_vars

\* every operation that reads the registry: the evaluators and compute_pulse
\* called on their own, and the driver's run
InitProgram == Init \/ InitDriver

NextProgram == Next \/ NextDriver

SpecProgram == InitProgram /\ [][NextProgram]_vars

\* ------------------------------------------------------------------------
\* The table writers: save_df_to_csv and export_flat_latex_table_truncated
\* ------------------------------------------------------------------------

\* entries of the mappings handed to the writers
MaxEntries == 2

\* the sequences of at most n distinct elements of S
RECURSIVE Arrangements(_, _)
Arrangements(S, n) ==
    IF n = 0 THEN {<< >>}
    ELSE Arrangements(S, n - 1)
            \cup {Append(a, x) : a \in {b \in Arrangements(S, n - 1) : Len(b) = n - 1},
                                 x \in S}

\* a mapping with the keys ks, in that order (the values stand for the four
\* BER values of the key)
MappingOf(ks) == [k \in 1..Len(ks) |-> [key |-> ks[k], value |-> <<"ber", ks[k]>>]]

Mappings(keys) ==
    {MappingOf(ks) : ks \in {a \in Arrangements(keys, MaxEntries) :
                                Cardinality({a[k] : k \in 1..Len(a)}) = Len(a)}}

\* keys <pulse>_SNR<snr>_alpha<alpha>_trunc<n>
TruncKeys ==
    {TruncIsiKey(c) :
        c \in [pulse : {"raised_cosine", "btrc"}, snr : {Flt(10), Flt(15)},
               alpha : {220}, t_max : {Flt(1), Flt(5), Flt(10)}]}

\* keys of the ISI and of the CCI loop
PlainKeys ==
    {IsiKey(c) : c \in [pulse : {"btrc"}, snr : {Flt(10), Flt(15)},
                        alpha : {220, 500}]}

SirKeys ==
    {CciKey(c) : c \in [pulse : {"btrc"}, snr : {Flt(15)}, sir : {Flt(10), Flt(20)},
                        alpha : {220}, L : {2, 6}]}

TableCalls ==
    [fn : {"export_flat_latex_table_truncated"}, results : Mappings(TruncKeys)]
        \cup [fn : {"save_df_to_csv"},
              results : Mappings(PlainKeys) \cup Mappings(SirKeys)
                            \cup Mappings(TruncKeys)]

\* --- save_df_to_csv ---

\* the columns of a frame results_to_df built from rows (none without rows);
\* ber stands for ber05, ber10, ber20, ber25
Columns(df) ==
    IF Len(df) = 0 THEN << >>
    ELSE <<"pulse", "snr", "sir", "alpha", "L", "trunc", "joint", "ber">>

\* pd.isna of a cell of column c
IsNA(c, v) == c \in {"snr", "sir", "L", "trunc"} /\ v = NoneCell

\* df.dropna(axis=1, how="all"): the columns with a value in some row
DropEmpty(df, cols) ==
    SelectSeq(cols, LAMBDA c : \E k \in 1..Len(df) : ~IsNA(c, df[k][c]))

priority == <<"snr", "sir", "alpha", "L">>

\* the value rows are compared by in column c (alpha holds "d.dd" strings,
\* which compare as their values do)
SortValue(c, v) == IF c = "alpha" THEN ParseFloat(v) ELSE v

\* row a sorts before row b by the columns by, in that order
Before(a, b, by) ==
    \E j \in 1..Len(by) :
        /\ SortValue(by[j], a[by[j]]) < SortValue(by[j], b[by[j]])
        /\ \A h \in 1..(j - 1) : a[by[h]] = b[by[h]]

\* df.sort_values(by=by): a stable ascending sort
RECURSIVE sort_values(_, _)
sort_values(df, by) ==
    IF Len(df) <= 1 THEN df
    ELSE LET rest == sort_values(Tail(df), by)
             lead == SelectSeq(rest, LAMBDA r : Before(r, Head(df), by))
             tail == SelectSeq(rest, LAMBDA r : ~Before(r, Head(df), by))
         IN  lead \o <<Head(df)>> \o tail

\* what save_df_to_csv writes for the frame df: the header and the rows
save_df_to_csv(df) ==
    LET kept       == DropEmpty(df, Columns(df))
        sort_order == SelectSeq(priority, LAMBDA c : c \in {kept[j] : j \in 1..Len(kept)})
    IN  [columns |-> kept,
         rows    |-> IF Len(sort_order) > 0 THEN sort_values(df, sort_order) ELSE df]

SaveCsv ==
    /\ pc = "call"
    /\ call.fn = "save_df_to_csv"
    /\ pc' = "returned"
    /\ ret' = [kind |-> "value",
               value |-> save_df_to_csv(results_to_df(call.results))]
    /\ UNCHANGED <<call, g, loc, rng, ber, i, last, draws, pulse_calls>>
    /\ UNCHANGED <<PULSE_FNS, suspended, seeding, arrays, driver>>

\* --- export_flat_latex_table_truncated ---

\* the pattern text pat stands in s at p, a "." of pat taking any character
RECURSIVE WildAt(_, _, _)
WildAt(s, p, pat) ==
    \/ Len(pat) = 0
    \/ /\ p <= Len(s)
       /\ SubSeq(pat, 1, 1) \in {".", SubSeq(s, p, p)}
       /\ WildAt(s, p + 1, SubSeq(pat, 2, Len(pat)))

\* re.match(r".+_SNR(?P<snr>[\d\.]+)_alpha[\d\.]+_trunc(?P<trunc>\d+)", key)
\* with the pulse text ending before p
ScanFrom(s, p) ==
    LET e1 == RunEnd(s, p + 4, NumChars)
        e2 == RunEnd(s, e1 + 6, NumChars)
        e3 == RunEnd(s, e2 + 6, DigitChars)
    IN  [ok    |-> /\ StartsWith(s, p, "_SNR") /\ e1 > p + 4
                   /\ StartsWith(s, e1, "_alpha") /\ e2 > e1 + 6
                   /\ StartsWith(s, e2, "_trunc") /\ e3 > e2 + 6,
         snr   |-> SubSeq(s, p + 4, e1 - 1),
         trunc |-> SubSeq(s, e2 + 6, e3 - 1)]

\* the groups of the first scan of a key (the pulse group is greedy)
Scan(key) ==
    LET ok == {p \in 2..Len(key) : StartsWith(key, p, "_SNR") /\ ScanFrom(key, p).ok}
    IN  IF ok = {} THEN [ok |-> FALSE]
        ELSE ScanFrom(key, CHOOSE p \in ok : \A q \in ok : q <= p)

\* sorted(set) of numbers, ascending
RECURSIVE Sorted(_)
Sorted(S) ==
    IF S = {} THEN << >>
    ELSE LET least == CHOOSE x \in S : \A y \in S : x <= y
         IN  <<least>> \o Sorted(S \ {least})

\* re.compile(rf"(?P<pulse>.+)_SNR{snr}_alpha(?P<alpha>[\d\.]+)_trunc{trunc}")
\* .match(key): from the start of the key, the point of str(snr) taking any
\* character, nothing asked of what follows the digits of trunc
TableMatch(key, snr, trunc) ==
    LET lit == "_SNR" \o FloatStr(snr) \o "_alpha"
        ok  == {p \in 2..Len(key) :
                  /\ WildAt(key, p, lit)
                  /\ RunEnd(key, p + Len(lit), NumChars) > p + Len(lit)
                  /\ StartsWith(key, RunEnd(key, p + Len(lit), NumChars),
                                "_trunc" \o IntStr(trunc))}
    IN  [ok    |-> ok # {},
         pulse |-> IF ok = {} THEN ""
                   ELSE SubSeq(key, 1, (CHOOSE p \in ok : \A q \in ok : q <= p) - 1),
         alpha |-> IF ok = {} THEN ""
                   ELSE LET p == CHOOSE p \in ok : \A q \in ok : q <= p
                        IN  SubSeq(key, p + Len(lit),
                                   RunEnd(key, p + Len(lit), NumChars) - 1)]

pulse_rename ==
    [raised_cosine |-> "RC", btrc |-> "BTRC", elp |-> "ELP", iplcp |-> "IPLCP"]

\* the row of an entry in the table of (trunc, snr), with the key it came
\* from (the pulse names used are all in pulse_rename)
TableRow(e, m) ==
    [alpha |-> ParseFloat(m.alpha),
     text  |-> <<Fmt2(ParseFloat(m.alpha)),
                 IF m.pulse \in DOMAIN pulse_rename THEN pulse_rename[m.pulse]
                 ELSE m.pulse, e.value>>,
     key   |-> e.key]

\* the entries of results the pattern of (trunc, snr) matches, in dict order
RECURSIVE Entries(_, _, _)
Entries(results_, snr, trunc) ==
    IF Len(results_) = 0 THEN << >>
    ELSE LET m == TableMatch(results_[1].key, snr, trunc)
         IN  (IF m.ok THEN <<TableRow(results_[1], m)>> ELSE << >>)
                 \o Entries(Tail(results_), snr, trunc)

\* sorted(entries, key=lambda x: x[0]): by alpha, equal ones as they came
RECURSIVE SortedByAlpha(_)
SortedByAlpha(entries) ==
    IF Len(entries) <= 1 THEN entries
    ELSE LET rest == SortedByAlpha(Tail(entries))
             lead == SelectSeq(rest, LAMBDA r : r.alpha < Head(entries).alpha)
             tail == SelectSeq(rest, LAMBDA r : r.alpha >= Head(entries).alpha)
         IN  lead \o <<Head(entries)>> \o tail

\* the tables export_flat_latex_table_truncated emits: one per (trunc, snr)
\* of the sorted values found in the keys, rows sorted by alpha
export_flat_latex_table_truncated(results_) ==
    LET scans        == [k \in 1..Len(results_) |-> Scan(results_[k].key)]
        found        == {k \in 1..Len(results_) : scans[k].ok}
        truncs == Sorted({ParseInt(scans[k].trunc) : k \in found})
        snrs   == Sorted({ParseFloat(scans[k].snr) : k \in found})
        pairs        == Product(<<truncs, snrs>>)
    IN  IF found = {} THEN << >>
        ELSE [j \in 1..Len(pairs) |->
                [trunc |-> pairs[j][1], snr |-> pairs[j][2],
                 rows  |-> SortedByAlpha(Entries(results_, pairs[j][2],
                                                 pairs[j][1]))]]

ExportTruncated ==
    /\ pc = "call"
    /\ call.fn = "export_flat_latex_table_truncated"
    /\ pc' = "returned"
    /\ ret' = [kind |-> "value",
               value |-> export_flat_latex_table_truncated(call.results)]
    /\ UNCHANGED <<call, g, loc, rng, ber, i, last, draws, pulse_calls>>
    /\ UNCHANGED <<PULSE_FNS, suspended, seeding, arrays, driver>>

InitTables == Idle /\ NoArrays /\ NoDriver /\ NoSecondCall /\ call \in TableCalls

NextTables == SaveCsv \/ ExportTruncated

SpecTables == InitTables /\ [][NextTables]_vars

\* ------------------------------------------------------------------------
\* Properties
\* ------------------------------------------------------------------------

\* the evaluator has entered its loop or returned
Entered == IsEvaluator /\ pc \in {"loop", "returned"}

\* at least one iteration of the offsets loop has run
Iterated1 == Entered /\ i > 0

\* the ISI half-span N = nbits // 2 of the claims, and the loop-invariant
\* values from the arguments
CallN == call.nbits \div 2
CallLocals ==
    Locals(call.fn, call.snr_db, call.sir_db, call.nbits, call.M, call.omega)

\* the iteration of the evaluator in progress for offsets[j], had the
\* randomness source returned signs_isi and signs_cci
IterationFor(j, signs_isi, signs_cci) ==
    LET pc_ == PulseCall(call.fn, g, call.alpha, CallLocals.ab, call.offsets[j])
    IN  CASE call.fn = "isi"   -> IsiIteration(CallLocals, pc_, signs_isi)
          [] call.fn = "cci"   -> CciIteration(CallLocals, pc_, signs_cci)
          [] call.fn = "joint" -> JointIteration(CallLocals, pc_, signs_isi, signs_cci)

\* the sizes of the two sign draws of one iteration
IsiDrawSize == IF call.fn = "cci" THEN 0 ELSE 2 * CallN
CciDrawSize == IF call.fn = "isi" THEN 0 ELSE call.L

\* C1: in each of the three evaluators the result array has exactly
\* len(offsets) entries from its allocation on; once offsets[1..i] are
\* processed, entry j <= i is the BER computed for offsets[j] (for the signs
\* some draw returned) and the entries after i are not assigned; the array
\* returned is the array filled for all the offsets, in input order.
C1_OnePerOffsetInOrder ==
    Entered =>
        /\ Len(ber) = Len(call.offsets)
        /\ i <= Len(call.offsets)
        /\ \A j \in 1..Len(ber) :
              IF j <= i
              THEN \E si \in SignVectors(IsiDrawSize), sc \in SignVectors(CciDrawSize) :
                      ber[j] = IterationFor(j, si, sc).ber
              ELSE ber[j] = Unset
        /\ pc = "returned" =>
              /\ i = Len(call.offsets)
              /\ ret = [kind |-> "value", value |-> ber]

\* C1 witness: a call returned two different BERs for two different offsets
C1_Witness ==
    /\ IsEvaluator /\ pc = "returned"
    /\ Len(call.offsets) = 2
    /\ call.offsets[1] # call.offsets[2]
    /\ ret.value[1] # ret.value[2]

\* the last iteration drew at least one tap sign
DrewSigns == Iterated1 /\ Len(last.signs_isi) + Len(last.signs_cci) > 0

\* the BER of the last iteration, had the draws returned si and sc
LastBerWith(si, sc) == IterationFor(i, si, sc).ber

\* the taps of the last iteration weigh on the series: a harmonic is summed
\* with an interference product other than 1
TapsWeigh ==
    \/ \E h \in 1..Len(last.prod_cos) : last.prod_cos[h] # Flt(1)
    \/ \E h \in 1..Len(last.prod_bessel) : last.prod_bessel[h] # Flt(1)

\* C2 as claimed: a different sign realisation gives a different BER (the
\* BER of an offset depends on the tap signs drawn), stated where the taps
\* weigh on the series
C2_SignsChangeBer ==
    (DrewSigns /\ TapsWeigh) =>
        \A si \in SignVectors(IsiDrawSize), sc \in SignVectors(CciDrawSize) :
            <<si, sc>> # <<last.signs_isi, last.signs_cci>>
                => LastBerWith(si, sc) # last.ber

\* C2 amended: every sign realisation gives the same BER: the signs enter
\* only through cos(m omega g_k) and J0(m omega r_i), which are even, so the
\* harmonic products and the BER of an offset do not depend on the signs drawn
C2_BerIndependentOfSigns ==
    DrewSigns =>
        \A si \in SignVectors(IsiDrawSize), sc \in SignVectors(CciDrawSize) :
            LET other == IterationFor(i, si, sc)
            IN  /\ other.ber = last.ber
                /\ other.prod_cos = last.prod_cos
                /\ other.prod_bessel = last.prod_bessel

\* C2 witness: an iteration with ISI and CCI taps that weigh on the series
\* (a harmonic product below 1) and with a negative sign drawn
C2_Witness ==
    /\ DrewSigns
    /\ call.fn = "joint"
    /\ \E h \in 1..Len(last.prod_cos) : last.prod_cos[h] < Flt(1)
    /\ \E h \in 1..Len(last.prod_bessel) : last.prod_bessel[h] < Flt(1)
    /\ \E j \in 1..Len(last.signs_isi) : last.signs_isi[j] = -Flt(1)
    /\ \E j \in 1..Len(last.signs_cci) : last.signs_cci[j] = Flt(1)

\* C3 as claimed: every value of the batched pulse call of the last
\* iteration equals the pulse evaluated at that position alone
C3_BatchedEqualsPointwise ==
    Iterated1 =>
        \A j \in 1..Len(last.t_vals) :
            last.g_vals[j] = Call(g, <<Mul(last.t_vals[j], SymbolT)>>, call.alpha)[1]

\* C3 off iplcp: for a pulse that does not end in iplcp_pulse the batched
\* call and the pointwise evaluations agree (the divergence is iplcp_pulse's)
C3_AgreesOffIplcp ==
    (Iterated1 /\ g.fn # "iplcp") =>
        \A j \in 1..Len(last.t_vals) :
            last.g_vals[j] = Call(g, <<Mul(last.t_vals[j], SymbolT)>>, call.alpha)[1]

\* C4: a str pulse name outside the registry makes the evaluator raise
\* ValueError at resolution: it never enters its loop or returns, no pulse is
\* resolved in its place, no pulse is evaluated, no generator is made, no sign
\* is drawn; compute_pulse raises for such a name before any pulse evaluation.
C4_UnknownNameRaises ==
    /\ (IsEvaluator /\ call.pulse.kind = "str"
            /\ call.pulse.name \notin RegisteredNames) =>
          /\ pc \in {"call", "raised"}
          /\ pc = "raised" => ret = [kind |-> "raise", exc |-> "ValueError"]
          /\ g = << >> /\ loc = << >> /\ ber = << >> /\ draws = << >>
          /\ pulse_calls = 0
          /\ rng = [given |-> 0, default |-> 0, made |-> FALSE, np_random |-> 0]
    /\ (call.fn = "compute_pulse" /\ call.name \notin RegisteredNames) =>
          /\ pc \in {"call", "raised"}
          /\ pc = "raised" => ret = [kind |-> "raise", exc |-> "ValueError"]
          /\ pulse_calls = 0
    /\ (IsEvaluator /\ pc = "raised" /\ g = << >>) =>
          (call.pulse.kind = "str" /\ call.pulse.name \notin RegisteredNames)

\* C4 witness: an evaluator raised for the name INVALID
C4_Witness ==
    /\ IsEvaluator /\ pc = "raised"
    /\ call.pulse = Name("INVALID")
    /\ Len(call.offsets) > 0

\* C5: a callable pulse is what the evaluator uses, unchanged, registered or
\* not; the call does not raise at resolution (past the resolution the pulse
\* in use is the callable); and _resolve_pulse of eye_utils returns every
\* callable unchanged as well.
C5_CallableReturnedAsIs ==
    (IsEvaluator /\ call.pulse.kind = "callable") =>
        /\ pc # "call" => g = call.pulse
        /\ eye_resolve_pulse(call.pulse) = Returns(call.pulse)

\* C5 witness: an evaluator returned BERs computed with a callable that is
\* no value of the registry
C5_Witness ==
    /\ IsEvaluator /\ pc = "returned"
    /\ call.pulse.kind = "callable"
    /\ \A n \in DOMAIN PULSE_FNS : PULSE_FNS[n] # call.pulse
    /\ g = call.pulse
    /\ Len(ret.value) > 0

\* the odd integers m with 1 <= m < M
OddBelow(M) == {m \in 1..(M - 1) : m % 2 = 1}

\* the number of terms claimed for M
TermCount(M) == IF M >= 1 THEN M \div 2 ELSE 0

\* the term of harmonic m of the series for main tap g0, times the ISI
\* factor fc and the CCI factor fb:
\* exp(-(m omega)^2 / 2) / m * sin(m omega g0) * fc * fb
SeriesTerm(m, omega, g0, fc, fb) ==
    LET mo == Mul(Flt(m), omega)
    IN  Mul(Mul(Mul(Div(Exp(RoundDiv(-Mul(mo, mo), 2)), Flt(m)),
                    Sin(Mul(mo, g0))), fc), fb)

\* the ISI and CCI factors of the h-th harmonic in the last iteration (1
\* where the evaluator has no such factor)
LastCosFactor(h) == IF call.fn = "cci" THEN Flt(1) ELSE last.prod_cos[h]
LastBesselFactor(h) == IF call.fn = "isi" THEN Flt(1) ELSE last.prod_bessel[h]

C7_TapCounts ==
    Iterated1 =>
        LET tau == call.offsets[i]
            ks  == [j \in 1..(2 * CallN) |-> IF j <= CallN THEN j - CallN - 1
                                              ELSE j - CallN]
        IN  /\ last.t_vals[1] = tau
            /\ last.g0 = Mul(Coeff(call.snr_db), last.g_vals[1])
            /\ call.fn \in {"isi", "joint"} =>
                  /\ Len(last.gk) = 2 * CallN
                  /\ Len(last.t_vals) = 2 * CallN + 1
                  /\ \A j \in 1..Len(last.gk) :
                        /\ ks[j] # 0
                        /\ last.t_vals[j + 1] = tau - Flt(ks[j])
                        /\ last.t_vals[j + 1] # tau
                        /\ Abs(last.gk[j]) =
                              Abs(Mul(Coeff(call.snr_db), last.g_vals[j + 1]))
                  /\ {ks[j] : j \in 1..Len(ks)} = ((-CallN)..CallN) \ {0}
            /\ call.fn = "cci" => last.gk = << >> /\ Len(last.t_vals) = 1
            /\ call.fn \in {"cci", "joint"} =>
                  /\ Len(last.r_i) = call.L
                  /\ \A j \in 1..Len(last.r_i) :
                        Abs(last.r_i[j]) = AInt(call.sir_db)
            /\ call.fn = "isi" => last.r_i = << >>

\* C7 witness: a joint iteration with N = 1 and L = MaxL: two ISI taps of
\* opposite drawn signs around the main tap, and L CCI taps
C7_Witness ==
    /\ Iterated1
    /\ call.fn = "joint" /\ CallN = 1 /\ call.L = MaxL /\ call.L > 0
    /\ Len(last.gk) = 2 /\ Len(last.r_i) = call.L
    /\ last.signs_isi[1] # last.signs_isi[2]

\* the pure-noise series for main tap g0:
\* 0.5 - (2/pi) * sum over odd m < M of exp(-(m omega)^2/2)/m * sin(m omega g0)
RECURSIVE NoiseSum(_, _, _, _)
NoiseSum(m, M, omega, g0) ==
    IF m >= M THEN 0
    ELSE NoiseSum(m + 2, M, omega, g0) + SeriesTerm(m, omega, g0, Flt(1), Flt(1))

PureNoiseBer(M, omega, g0) ==
    RoundDiv(Flt(1), 2) - Mul(Div(Flt(2), Pi), NoiseSum(1, M, omega, g0))

\* the main tap of the call in progress at offset tau: coeff * g(tau)
MainTap(tau) == Mul(Coeff(call.snr_db), Call(g, <<tau>>, call.alpha)[1])

\* C8: ber_isi with nbits = 0 or 1 (N = 0) has no ISI tap and consumes no
\* sign, its interference product is 1 for every harmonic, and the BER of each
\* offset processed is the pure-noise series for g0 = coeff * g(tau).
C8_IsiZeroSpanIsPureNoise ==
    (Iterated1 /\ call.fn = "isi" /\ call.nbits \in {0, 1}) =>
        /\ CallN = 0
        /\ last.gk = << >> /\ last.signs_isi = << >> /\ rng.given + rng.default = 0
        /\ \A h \in 1..Len(last.prod_cos) : last.prod_cos[h] = Flt(1)
        /\ Len(last.prod_cos) = Cardinality(OddBelow(call.M))
        /\ last.g0 = MainTap(call.offsets[i])
        /\ \A j \in 1..i :
              ber[j] = PureNoiseBer(call.M, call.omega, MainTap(call.offsets[j]))

\* C8 witness: ber_isi with nbits = 1 returned a two-harmonic pure-noise BER
C8_Witness ==
    /\ Iterated1 /\ pc = "returned"
    /\ call.fn = "isi" /\ call.nbits = 1
    /\ call.M = MaxM /\ Len(loc.m_omega) >= 2
    /\ ret.value[1] # RoundDiv(Flt(1), 2)

\* the BER ber_isi computes for offset tau with nbits = 0, for the pulse,
\* alpha, snr_db, M and omega of the call in progress
IsiZeroSpanBer(tau) ==
    IsiIteration(Locals("isi", call.snr_db, 0, 0, call.M, call.omega),
                 PulseCall("isi", g, call.alpha, Ab(Span(0)), tau), << >>).ber

\* C9: ber_cci with L = 0 has no CCI tap, its Bessel product is 1 for every
\* harmonic, and the BER of each offset processed is the pure-noise series,
\* the value ber_isi gives with N = 0 for the same pulse, alpha, snr_db, M,
\* omega and offset.
C9_CciZeroInterferersIsPureNoise ==
    (Iterated1 /\ call.fn = "cci" /\ call.L = 0) =>
        /\ last.r_i = << >> /\ last.signs_cci = << >>
        /\ \A h \in 1..Len(last.prod_bessel) : last.prod_bessel[h] = Flt(1)
        /\ Len(last.prod_bessel) = Cardinality(OddBelow(call.M))
        /\ \A j \in 1..i :
              /\ ber[j] = PureNoiseBer(call.M, call.omega, MainTap(call.offsets[j]))
              /\ ber[j] = IsiZeroSpanBer(call.offsets[j])

\* C9 witness: ber_cci with L = 0 returned a two-harmonic pure-noise BER
C9_Witness ==
    /\ Iterated1 /\ pc = "returned"
    /\ call.fn = "cci" /\ call.L = 0
    /\ call.M = MaxM /\ Len(loc.m_omega) >= 2
    /\ ret.value[1] # RoundDiv(Flt(1), 2)

\* the iteration of ber_isi for offsets[j] with the pulse, alpha, snr_db,
\* nbits, M and omega of the call in progress and the signs si
IsiIterationFor(j, si) ==
    LET isi_loc == Locals("isi", call.snr_db, 0, call.nbits, call.M, call.omega)
    IN  IsiIteration(isi_loc,
                     PulseCall("isi", g, call.alpha, isi_loc.ab, call.offsets[j]), si)

\* C10: ber_isi_cci with L = 0 draws, for the j-th offset, its 2N ISI signs
\* at the place of the stream where ber_isi draws them (after (j-1) * 2N
\* signs) and no CCI sign, so both read the same signs from a source in the
\* same seed state; its Bessel product is 1 and its ISI taps and its BER for
\* the offset are those of ber_isi for these signs.
C10_JointWithoutCciIsIsi ==
    (Iterated1 /\ call.fn = "joint" /\ call.L = 0) =>
        /\ Len(draws) = 2 * i
        /\ \A j \in 1..i :
              /\ draws[2 * j - 1] =
                    [tap |-> "isi", size |-> 2 * CallN, at |-> (j - 1) * 2 * CallN,
                     offset |-> j]
              /\ draws[2 * j].tap = "cci" /\ draws[2 * j].size = 0
        /\ rng.given + rng.default = i * 2 * CallN
        /\ \A h \in 1..Len(last.prod_bessel) : last.prod_bessel[h] = Flt(1)
        /\ last.gk = IsiIterationFor(i, last.signs_isi).gk
        /\ last.ber = IsiIterationFor(i, last.signs_isi).ber
        /\ ber[i] = last.ber
        /\ \A j \in 1..i :
              \E si \in SignVectors(2 * CallN) : ber[j] = IsiIterationFor(j, si).ber

\* C10 witness: ber_isi_cci with L = 0 and N = 1 returned two BERs, its ISI
\* taps weighing on the series
C10_Witness ==
    /\ Iterated1 /\ pc = "returned"
    /\ call.fn = "joint" /\ call.L = 0 /\ CallN = 1
    /\ Len(call.offsets) = 2
    /\ \E h \in 1..Len(last.prod_cos) : last.prod_cos[h] # Flt(1)

\* ------------------------------------------------------------------------
\* C11 (under SpecSeeded)
\* ------------------------------------------------------------------------

\* the signs the last iteration drew, ISI taps first
LastSigns == last.signs_isi \o last.signs_cci

\* C11: in the second of two calls with the same arguments, each given a
\* generator in the same seed state, every iteration draws the signs the
\* stream showed the first call at the same positions and stores the BER the
\* first call stored for that offset; the second call returns what the first
\* returned.
C11_SameSeedSameBer ==
    first # NoReturn =>
        /\ i > 0 =>
              /\ LastSigns = SubSeq(tape, rng.given - Len(LastSigns) + 1, rng.given)
              /\ ber[i] = first.value[i]
        /\ pc = "returned" => ret = first

\* C11 witness: both calls returned two BERs, six signs drawn per call
C11_Witness ==
    /\ first # NoReturn /\ pc = "returned"
    /\ call.fn = "joint" /\ Len(ret.value) = 2
    /\ Len(tape) = 6 /\ rng.given = 6

\* ------------------------------------------------------------------------
\* C12, C13 (under SpecTrunc)
\* ------------------------------------------------------------------------

\* base(t, alpha) on the caller's t before any truncated call
BaseAtStart == BaseValues(call.base, call.t, call.alpha)

\* what base(t, alpha) returns now, t being the caller's vector as it is now
BaseNow ==
    IF call.base.holds = "stored" THEN heap[TableId]
    ELSE BaseValues(call.base, heap[TimeId], call.alpha)

\* C12: every array a truncated pulse has returned, whichever truncate_pulse
\* built it, holds base(t, alpha) at the positions with |t| <= t_max, the edge
\* |t| = t_max included, and 0 at the positions with |t| > t_max.
C12_TruncatedValues ==
    \A k \in 1..Len(outs) : \A j \in 1..Len(call.t) :
        heap[outs[k]][j] =
            IF Abs(call.t[j]) <= call.t_max THEN BaseAtStart[j] ELSE 0

\* C12 witness: an in-place truncate_pulse returned an array that keeps a
\* non-zero sample on the edge and has zeroed a non-zero sample outside
C12_Witness ==
    /\ Len(outs) > 0
    /\ call.variant = "latex_utils"
    /\ \E j \in 1..Len(call.t) :
          Abs(call.t[j]) = call.t_max /\ heap[outs[1]][j] # 0
    /\ \E j \in 1..Len(call.t) :
          Abs(call.t[j]) > call.t_max /\ BaseAtStart[j] # 0 /\ heap[outs[1]][j] = 0

\* C13 as claimed: calls of a truncated pulse leave the caller's t, the array
\* a base pulse keeps, and what base(t, alpha) returns as they were.
C13_BaseNeverMutated ==
    /\ heap[TimeId] = call.t
    /\ call.base.holds = "stored" => heap[TableId] = BaseAtStart
    /\ BaseNow = BaseAtStart

\* C13 for the truncate_pulse of pulse_table_utils alone, which writes to no
\* array it did not make
C13_ProductLeavesBaseAlone ==
    call.variant = "pulse_table_utils" => C13_BaseNeverMutated

\* ------------------------------------------------------------------------
\* C14..C15, C18..C20 (under Spec)
\* ------------------------------------------------------------------------

\* C14: no step of an evaluator call changes its arguments (the pulse
\* reference and the offsets among them), the registry PULSE_FNS, the pulse
\* callable once resolved, or the global np.random state; with rng omitted the
\* call makes its own generator and the caller's is not advanced; with rng
\* given no other generator is made or advanced.
C14_OnlyTheSourceAdvances ==
    [][IsEvaluator =>
          /\ call' = call
          /\ PULSE_FNS' = PULSE_FNS
          /\ g # << >> => g' = g
          /\ rng'.np_random = rng.np_random
          /\ call.rng = None => rng'.given = rng.given /\ (pc' = "loop" => rng'.made)
          /\ call.rng # None => rng'.default = rng.default /\ ~rng'.made]_vars

\* C14 witness: a call without rng returned after drawing from its own
\* generator, the caller's generator and np.random where they were
C14_Witness ==
    /\ IsEvaluator /\ pc = "returned"
    /\ call.rng = None
    /\ rng.made /\ rng.default > 0 /\ rng.given = 0 /\ rng.np_random = 0
    /\ PULSE_FNS = AtImport

\* the i-th most recent record of draws (1 = the last)
DrawBack(k) == draws[Len(draws) - k + 1]

\* every assignment of a sign to each of n taps
SignAssignments(n) == [1..n -> {-Flt(1), Flt(1)}]

\* C15: an iteration draws one sign per tap: 2N for the ISI taps and L for the
\* CCI taps, tap j weighted by element j of its draw, the two draws of the
\* joint evaluator at stream positions that do not overlap; and before an
\* iteration every assignment of signs to the 2N ISI taps is one its first
\* draw can return, and whatever that draw returned every assignment of signs
\* to the L CCI taps is one its second draw can return.
C15_EveryTapItsOwnDraw ==
    /\ Iterated1 =>
          /\ Len(last.signs_isi) = IsiDrawSize
          /\ Len(last.signs_cci) = CciDrawSize
          /\ \A j \in 1..Len(last.gk) :
                last.gk[j] = Mul(Mul(Coeff(call.snr_db), last.signs_isi[j]),
                                 last.g_vals[j + 1])
          /\ \A j \in 1..Len(last.r_i) :
                last.r_i[j] = Mul(AInt(call.sir_db), last.signs_cci[j])
          /\ call.fn = "joint" =>
                /\ DrawBack(2).tap = "isi" /\ DrawBack(2).size = 2 * CallN
                /\ DrawBack(1).tap = "cci" /\ DrawBack(1).size = call.L
                /\ DrawBack(1).at = DrawBack(2).at + DrawBack(2).size
                /\ Position = DrawBack(1).at + DrawBack(1).size
    /\ (IsEvaluator /\ InLoop) =>
          \A si \in SignAssignments(IsiDrawSize) :
              /\ call.fn # "cci" => si \in Choice(Len(loc.ab), Position)
              /\ \A sc \in SignAssignments(CciDrawSize) :
                    call.fn # "isi" => sc \in Choice(call.L, Position + Len(si))

\* C15 witness: a joint iteration with two ISI taps and a CCI tap drew the
\* assignment (+1, -1 | +1), the ISI signs differing from each other
C15_Witness ==
    /\ Iterated1
    /\ call.fn = "joint" /\ CallN = 1 /\ call.L = 1
    /\ last.signs_isi = <<Flt(1), -Flt(1)>>
    /\ last.signs_cci = <<Flt(1)>>

\* C18: when the pulse callable raises while offsets[i + 1] is processed, the
\* evaluator ends with the pulse's exception as it was raised and with no
\* value returned, the array filled so far is not handed back, and the call
\* takes no further step; the pulse has been called once for each offset
\* processed and once for the one that raised, never twice for one offset.
C18_PulseErrorPropagates ==
    IsEvaluator =>
        /\ pc \in {"loop", "returned"} => pulse_calls = i
        /\ (pc = "raised" /\ g # << >>) =>
              /\ ret = [kind |-> "raise", exc |-> PulseError]
              /\ i < Len(call.offsets)
              /\ PulseRaises(call.fn, g, loc.ab, call.offsets[i + 1])
              /\ pulse_calls = i + 1
              /\ ~ENABLED Next
        /\ ret.kind = "value" =>
              \A j \in 1..Len(call.offsets) :
                  ~PulseRaises(call.fn, g, loc.ab, call.offsets[j])

\* C18 witness: the table pulse answered the first offset and raised on the
\* second, which lies outside its support; one BER was computed and none
\* returned
C18_Witness ==
    /\ IsEvaluator /\ pc = "raised"
    /\ g # << >> /\ g.fn = "table"
    /\ i = 1 /\ pulse_calls = 2
    /\ ber[1] # Unset
    /\ ret = [kind |-> "raise", exc |-> PulseError]

\* C19: the value stored and returned for an offset is 0.5 - (2/pi) * suma
\* of that offset's series sum, whatever its size: a sum above pi/4 gives a
\* BER below 0 and a sum below -pi/4 a BER above 1, and the array returned is
\* the array stored.
C19_NotClamped ==
    /\ Iterated1 =>
          /\ ber[i] = RoundDiv(Flt(1), 2) - Mul(Div(Flt(2), Pi), last.suma)
          /\ 4 * last.suma > Pi => ber[i] < 0
          /\ 4 * last.suma < -Pi => ber[i] > Flt(1)
    /\ (IsEvaluator /\ pc = "returned") => ret.value = ber

\* C19 witness: a call returned a BER below 0 for a series sum above pi/4
C19_Witness ==
    /\ IsEvaluator /\ pc = "returned"
    /\ i = 1
    /\ 4 * last.suma > Pi
    /\ ret.value[1] < 0

\* a call returned a BER above 1 for a series sum below -pi/4
C19_AboveOne ==
    /\ IsEvaluator /\ pc = "returned"
    /\ i = 1
    /\ 4 * last.suma < -Pi
    /\ ret.value[1] > Flt(1)

\* compute_pulse was called with a registered name and has ended
ComputePulseDone ==
    /\ call.fn = "compute_pulse"
    /\ pc # "call"
    /\ call.name \in RegisteredNames

\* the call ended with ValueError and handed back no samples
RaisedValueError ==
    /\ pc = "raised"
    /\ ret = [kind |-> "raise", exc |-> "ValueError"]

\* C20: for every registered name, compute_pulse with normalize =
\* 'continuous' and no dt raises and returns no samples, and with a normalize
\* argument that is neither None nor one of 'discrete', 'continuous',
\* 'amplitude' it raises as well.
C20_BadNormalizeRaises ==
    ComputePulseDone =>
        /\ (call.normalize = "continuous" /\ ~call.with_dt) => RaisedValueError
        /\ call.normalize \notin {None} \cup NormalizeModes => RaisedValueError

\* what the code does: continuous without dt raises, and so does every
\* unknown mode that is a non-empty string; the empty string is taken for "no
\* normalisation" by the truth test of line 176 and the samples come back as
\* the pulse function computed them
C20_TruthyModeRaises ==
    ComputePulseDone =>
        /\ (call.normalize = "continuous" /\ ~call.with_dt) => RaisedValueError
        /\ call.normalize \notin {None, ""} \cup NormalizeModes => RaisedValueError
        /\ call.normalize = "" =>
              /\ pc = "returned"
              /\ ret.value.h =
                    CallFn(call.name, t_axis(call.span_T, call.oversample).t,
                           call.alpha)

\* continuous normalisation without dt has raised for iplcp
C20_Reached ==
    /\ ComputePulseDone
    /\ call.name = "iplcp"
    /\ call.normalize = "continuous" /\ ~call.with_dt
    /\ RaisedValueError /\ pulse_calls = 1

\* ------------------------------------------------------------------------
\* C16, C17 (under SpecDriver)
\* ------------------------------------------------------------------------

\* the configurations of loop l for pulse list pl
BatchConfigs(l, pl) ==
    CASE l = 1 -> IsiConfigs(pl)
      [] l = 2 -> CciConfigs(pl)
      [] l = 3 -> JointConfigs(pl)
      [] l = 4 -> TruncIsiConfigs(pl)
      [] l = 5 -> TruncCciConfigs(pl)
      [] l = 6 -> TruncJointConfigs(pl)

\* the keys of the configurations cf, in their order
KeysOf(cf, Key(_)) == [k \in 1..Len(cf) |-> Key(cf[k])]

\* the keys of loop l for pulse list pl
BatchKeys(l, pl) ==
    CASE l = 1 -> KeysOf(IsiConfigs(pl), IsiKey)
      [] l = 2 -> KeysOf(CciConfigs(pl), CciKey)
      [] l = 3 -> KeysOf(JointConfigs(pl), JointKey)
      [] l = 4 -> KeysOf(TruncIsiConfigs(pl), TruncIsiKey)
      [] l = 5 -> KeysOf(TruncCciConfigs(pl), TruncCciKey)
      [] l = 6 -> KeysOf(TruncJointConfigs(pl), TruncJointKey)

\* the elements of a list
Range(seq) == {seq[k] : k \in 1..Len(seq)}

\* the configurations of loop l the script has gone through
Processed(l) ==
    IF l < progress.loop THEN Len(BatchConfigs(l, call.pulse_list))
    ELSE IF l = progress.loop THEN progress.done ELSE 0

\* the sizes the six dicts end with: 4*2*3, 4*2*3*2, 4*3, 2*4*3, 2*4*3, 2*4*1
ExpectedEntries == <<24, 48, 12, 24, 24, 8>>

\* the configuration an evaluation was made for, read off its arguments
ConfigOf(v) ==
    [pulse |-> v.pulse.fn, alpha |-> v.alpha, snr |-> v.snr_db]
        @@ (IF v.fn = "isi" THEN << >> ELSE [sir |-> v.sir_db, L |-> v.L])
        @@ (IF v.pulse.t_max = NoTrunc THEN << >> ELSE [t_max |-> v.pulse.t_max])

\* the entries 1..n of the dict d are the configurations cf[1..n] under the
\* keys ks[1..n]
HoldsFirst(d, n, cf, ks) ==
    /\ Len(d) = n
    /\ [k \in 1..Len(d) |-> d[k].key] = SubSeq(ks, 1, n)
    /\ [k \in 1..Len(d) |-> ConfigOf(d[k].value)] = SubSeq(cf, 1, n)

\* C16: in each of the six loops the configuration tuples are pairwise
\* distinct and so are their keys (as many keys as tuples), and at every point
\* of the run each dict holds one entry per configuration its loop has gone
\* through, in iteration order, under that configuration's key and with that
\* configuration's result: none skipped, none overwritten; a finished loop
\* leaves 24, 48, 12, 24, 24 and 8 entries.
C16_OneEntryPerConfiguration ==
    call.fn = "main_ber" =>
        \A l \in 1..Len(DictNames) :
            /\ Cardinality(Range(BatchConfigs(l, call.pulse_list)))
                  = Len(BatchConfigs(l, call.pulse_list))
            /\ Cardinality(Range(BatchKeys(l, call.pulse_list)))
                  = Len(BatchConfigs(l, call.pulse_list))
            /\ HoldsFirst(results[DictNames[l]], Processed(l),
                          BatchConfigs(l, call.pulse_list),
                          BatchKeys(l, call.pulse_list))
            /\ l < progress.loop =>
                  Len(results[DictNames[l]]) = ExpectedEntries[l]

\* C16 witness: the script is through its six loops with 24, 48, 12, 24, 24
\* and 8 entries; the CCI dict keeps L = 2 and L = 6 of one (pulse, SIR,
\* alpha) apart
C16_Witness ==
    /\ call.fn = "main_ber" /\ pc = "returned"
    /\ \A l \in 1..Len(DictNames) : Len(results[DictNames[l]]) = ExpectedEntries[l]
    /\ results.cci_results[1].key = "raised_cosine_SNR15.0_SIR10.0_alpha0.22_L2"
    /\ results.cci_results[2].key = "raised_cosine_SNR15.0_SIR10.0_alpha0.22_L6"
    /\ results.isi_trunc_results[24].key = "iplcp_SNR10.0_alpha0.5_trunc10"

\* configuration k of loop l can be evaluated: its pulse name is registered
Evaluable(l, k) ==
    BatchConfigs(l, call.pulse_list)[k].pulse \in DOMAIN PULSE_FNS

\* the key of configuration k of loop l is in the loop's dict
Collected(l, k) ==
    \E e \in 1..Len(results[DictNames[l]]) :
        results[DictNames[l]][e].key = BatchKeys(l, call.pulse_list)[k]

\* C17: once the script has ended, by its last statement or by an exception,
\* every configuration whose own evaluation does not fail has its result in
\* its dict.
C17_FailureDoesNotAbort ==
    (call.fn = "main_ber" /\ pc # "call") =>
        \A l \in 1..Len(DictNames) :
            \A k \in 1..Len(BatchConfigs(l, call.pulse_list)) :
                Evaluable(l, k) => Collected(l, k)

\* what the code does: the first configuration that fails ends the script
\* with its exception; the dicts hold the configurations before it and
\* nothing of what comes after
C17_FirstFailureEndsTheRun ==
    (call.fn = "main_ber" /\ pc = "raised") =>
        /\ ret = [kind |-> "raise", exc |-> "ValueError"]
        /\ ~Evaluable(progress.loop, progress.done + 1)
        /\ \A l \in 1..Len(DictNames) : Len(results[DictNames[l]]) = Processed(l)
        /\ ~ENABLED NextDriver

\* the run with "INVALID" in place of "elp" has ended in the ISI loop after
\* the twelve configurations of raised_cosine and btrc, those of iplcp not
\* evaluated
C17_Reached ==
    /\ call.fn = "main_ber" /\ pc = "raised"
    /\ call.pulse_list[3] = "INVALID"
    /\ progress = [loop |-> 1, done |-> 12]
    /\ Len(results.isi_results) = 12
    /\ Evaluable(1, 19) /\ ~Collected(1, 19)

\* ------------------------------------------------------------------------
\* C21.. (registry, t_axis, result tables)
\* ------------------------------------------------------------------------

C22_RegistryHasTestedNames ==
    {"raised_cosine", "btrc", "elp", "root_raised_cosine", "iplcp_freq",
     "iplcp_pulse"} \subseteq DOMAIN PULSE_FNS

\* what the import leaves: of the six names the three the decorators
\* register, and iplcp under the name "iplcp"
C22_RegistryHasThreeOfThem ==
    /\ {"raised_cosine", "btrc", "elp", "root_raised_cosine", "iplcp_freq",
        "iplcp_pulse"} \cap DOMAIN PULSE_FNS = {"raised_cosine", "btrc", "elp"}
    /\ "iplcp" \in DOMAIN PULSE_FNS

\* C23: t_axis raises ValueError and returns no axis whenever oversample is
\* not a positive integer (zero, negative or not an int), for every span_T
\* and T; a positive int never raises.
C23_BadOversampleRaises ==
    (call.fn = "t_axis" /\ pc # "call") =>
        IF call.oversample.type = "int" /\ call.oversample.value > 0
        THEN pc = "returned" /\ ret.kind = "value"
        ELSE pc = "raised" /\ ret = [kind |-> "raise", exc |-> "ValueError"]

C23_Witness ==
    /\ call.fn = "t_axis" /\ pc = "raised"
    /\ call.oversample.type = "float"
    /\ call.span_T = MaxAxisSpan /\ call.T = 2

\* C24: for ints span_T >= 0 and oversample > 0, t_axis returns dt = T/oversample
\* and exactly 2*span_T*oversample + 1 samples from -span_T*T to +span_T*T,
\* one of them t = 0.
C24_AxisLengthAndEnds ==
    (call.fn = "t_axis" /\ pc = "returned") =>
        LET t == ret.value.t
        IN  /\ ret.value.dt = RoundDiv(Flt(call.T), call.oversample.value)
            /\ Len(t) = 2 * call.span_T * call.oversample.value + 1
            /\ t[1] = -Flt(call.span_T * call.T)
            /\ t[Len(t)] = Flt(call.span_T * call.T)
            /\ \E j \in 1..Len(t) : t[j] = 0

\* what the code does keep: dt, the first sample, the sample 0, and a length
\* that is the claimed one or one more (a last sample beyond span_T*T)
C24_AxisUpToOneMore ==
    (call.fn = "t_axis" /\ pc = "returned") =>
        LET t == ret.value.t
            n == 2 * call.span_T * call.oversample.value + 1
        IN  /\ ret.value.dt = RoundDiv(Flt(call.T), call.oversample.value)
            /\ Len(t) \in {n, n + 1}
            /\ t[1] = -Flt(call.span_T * call.T)
            /\ t[n] = Flt(call.span_T * call.T)
            /\ \E j \in 1..Len(t) : t[j] = 0
            /\ call.oversample.value \in {1, 2, 4} => Len(t) = n

C24_OneMoreReached ==
    /\ call.fn = "t_axis" /\ pc = "returned"
    /\ call.span_T = 2 /\ call.oversample = IntArg(3) /\ call.T = 1
    /\ Len(ret.value.t) = 14

\* the draws one offset takes, in order: 2N ISI signs (ber_isi, ber_isi_cci),
\* then L CCI signs (ber_cci, ber_isi_cci)
DrawsPerOffset ==
    (IF call.fn = "cci" THEN << >>
     ELSE <<[tap |-> "isi", size |-> 2 * (call.nbits \div 2)]>>)
        \o (IF call.fn = "isi" THEN << >>
            ELSE <<[tap |-> "cci", size |-> call.L]>>)

\* signs one offset consumes: 2N, L or 2N + L
SignsPerOffset ==
    (IF call.fn = "cci" THEN 0 ELSE 2 * (call.nbits \div 2))
        + (IF call.fn = "isi" THEN 0 ELSE call.L)

\* C29: an evaluator call draws in a fixed order and amount: offsets in input
\* order, every offset its own draws (2N ISI signs, then L CCI signs), each
\* draw at the stream position where the previous one ended, so that the call
\* consumes len(offsets) * (2N), len(offsets) * L or len(offsets) * (2N + L).
C29_DrawsInFixedOrder ==
    IsEvaluator =>
        LET per == DrawsPerOffset
            n   == Len(per)
        IN  /\ Len(draws) = n * i
            /\ Position = i * SignsPerOffset
            /\ \A k \in 1..Len(draws) :
                  LET o == (k - 1) \div n
                      j == ((k - 1) % n) + 1
                  IN  /\ draws[k].offset = o + 1
                      /\ draws[k].tap = per[j].tap
                      /\ draws[k].size = per[j].size
                      /\ draws[k].at =
                            o * SignsPerOffset + (IF j = 2 THEN per[1].size ELSE 0)
            /\ pc = "returned" =>
                  /\ i = Len(call.offsets)
                  /\ Position = Len(call.offsets) * SignsPerOffset

\* C29 witness: ber_isi_cci returned after two offsets with 2N = 2 and L = 1:
\* four draws, six signs
C29_Witness ==
    /\ call.fn = "joint" /\ pc = "returned"
    /\ call.nbits = 2 /\ call.L = 1 /\ Len(call.offsets) = 2
    /\ Len(draws) = 4 /\ Position = 6
    /\ draws[3] = [tap |-> "isi", size |-> 2, at |-> 3, offset |-> 2]

\* the keys of a dict, in insertion order
Keys(d) == [k \in 1..Len(d) |-> d[k].key]

\* where x stands in the list seq
IndexIn(seq, x) == CHOOSE k \in 1..Len(seq) : seq[k] = x

\* the place of an evaluation in the nesting of the loops: truncation limit
\* (where there is one), pulse, then snr, sir, alpha and L, each list being
\* iterated in ascending order
Rank(v) ==
    <<IF v.pulse.t_max = NoTrunc THEN 0 ELSE v.pulse.t_max,
      IndexIn(call.pulse_list, v.pulse.fn), v.snr_db, v.sir_db, v.alpha, v.L>>

\* a comes before b in lexicographic order
LexLess(a, b) ==
    \E j \in 1..Len(a) :
        /\ a[j] < b[j]
        /\ \A h \in 1..(j - 1) : a[h] = b[h]

\* the entries of d follow the nesting of the loops
InLoopOrder(d) ==
    \A k \in 1..(Len(d) - 1) : LexLess(Rank(d[k].value), Rank(d[k + 1].value))

\* C27: in each result dict the insertion order of the keys is the iteration
\* order of the configurations (truncation limit outermost where present,
\* then pulse, then the remaining parameters in product order), and a later
\* configuration never moves an earlier key: the keys of a dict before a step
\* are the first keys of the dict after it.
C27_KeysInIterationOrder ==
    /\ [](call.fn = "main_ber" =>
            \A l \in 1..Len(DictNames) :
                /\ Keys(results[DictNames[l]])
                      = SubSeq(BatchKeys(l, call.pulse_list), 1,
                               Len(results[DictNames[l]]))
                /\ InLoopOrder(results[DictNames[l]]))
    /\ [][call.fn = "main_ber" =>
            \A l \in 1..Len(DictNames) :
                Keys(results[DictNames[l]])
                    = SubSeq(Keys(results'[DictNames[l]]), 1,
                             Len(results[DictNames[l]]))]_vars

\* C27 witness: the run is over; the truncated ISI dict starts with the twelve
\* keys of t_max = 5, pulse by pulse, and goes on with those of t_max = 10
C27_Witness ==
    /\ call.fn = "main_ber" /\ pc = "returned"
    /\ Len(results.isi_trunc_results) = 24
    /\ results.isi_trunc_results[1].key = "raised_cosine_SNR10.0_alpha0.22_trunc5"
    /\ results.isi_trunc_results[4].key = "btrc_SNR10.0_alpha0.22_trunc5"
    /\ results.isi_trunc_results[13].key = "raised_cosine_SNR10.0_alpha0.22_trunc10"
    /\ results.isi_results[2].key = "raised_cosine_SNR10.0_alpha0.35"
    /\ results.isi_results[4].key = "raised_cosine_SNR15.0_alpha0.22"

\* +1.0 for every tap
Ones(n) == [j \in 1..n |-> Flt(1)]

\* ber[j] of the call c run alone, lc and gg its locals and pulse
BerAlone(c, lc, gg, j) ==
    LET pc_ == PulseCall(c.fn, gg, c.alpha, lc.ab, c.offsets[j])
    IN  CASE c.fn = "isi" -> IsiIteration(lc, pc_, Ones(Len(lc.ab))).ber
          [] c.fn = "cci" -> CciIteration(lc, pc_, Ones(c.L)).ber
          [] c.fn = "joint" ->
                JointIteration(lc, pc_, Ones(Len(lc.ab)), Ones(c.L)).ber

\* what the call c returns or raises when nothing else runs; the sum of an
\* offset is even in every tap sign, so that the signs drawn do not show
Alone(c) ==
    LET r  == _resolve_pulse(c.pulse)
        lc == Locals(c.fn, c.snr_db, c.sir_db, c.nbits, c.M, c.omega)
    IN  IF r.raised THEN [kind |-> "raise", exc |-> r.exc]
        ELSE IF \E j \in 1..Len(c.offsets) :
                    PulseRaises(c.fn, r.value, lc.ab, c.offsets[j])
        THEN [kind |-> "raise", exc |-> PulseError]
        ELSE [kind |-> "value",
              value |-> [j \in 1..Len(c.offsets) |-> BerAlone(c, lc, r.value, j)]]

\* C25: two evaluator calls that run concurrently, each with its own
\* generator, end as they end when run alone, whatever the interleaving of
\* their steps: what a call returns (or raises) is what it returns with
\* nothing else running, and the generator of each has advanced by its own
\* draws only.
C25_InterleavingKeepsResults ==
    suspended # << >> =>
        /\ pc \in {"returned", "raised"} => ret = Alone(call)
        /\ suspended.frame.pc \in {"returned", "raised"} =>
              suspended.frame.ret = Alone(suspended.frame.call)
        /\ Position = i * SignsPerOffset
        /\ rng.default = 0 /\ rng.np_random = 0

\* C25 witness: a ber_isi and a ber_isi_cci call on two offsets each have
\* both returned after control passed between them in mid-loop
C25_Witness ==
    /\ suspended # << >>
    /\ suspended.interleaved
    /\ pc = "returned" /\ suspended.frame.pc = "returned"
    /\ {call.fn, suspended.frame.call.fn} = {"isi", "joint"}
    /\ Len(ret.value) = 2 /\ Len(suspended.frame.ret.value) = 2
    /\ ret.value # suspended.frame.ret.value

\* the row results_to_df should give for configuration c of a loop run in
\* joint mode or not
RowFor(c, joint) ==
    [snr   |-> c.snr,
     sir   |-> IF "sir" \in DOMAIN c THEN c.sir ELSE NoneCell,
     alpha |-> Fmt2(c.alpha),
     L     |-> IF "L" \in DOMAIN c THEN c.L ELSE NoneCell,
     trunc |-> IF "t_max" \in DOMAIN c THEN IntOf(c.t_max) ELSE NoneCell,
     joint |-> joint]

\* the configuration columns of the rows of a data frame
ConfigColumns(df) ==
    [k \in 1..Len(df) |->
        [snr |-> df[k].snr, sir |-> df[k].sir, alpha |-> df[k].alpha,
         L |-> df[k].L, trunc |-> df[k].trunc, joint |-> df[k].joint]]

\* the rows expected of loop l when the loops in joints count as joint mode
RowsFor(cf, joint) == [k \in 1..Len(cf) |-> RowFor(cf[k], joint)]

\* C26: for every key the driver produces, results_to_df recovers the
\* configuration that built it: snr, sir, alpha, L and trunc are the values
\* encoded (None where absent) and joint is true exactly for the keys of the
\* joint loops, the truncated one included.
C26_RowsRecoverConfiguration ==
    (call.fn = "main_ber" /\ pc = "returned") =>
        \A l \in 1..Len(DictNames) :
            ConfigColumns(ret.value[DictNames[l]])
                = RowsFor(BatchConfigs(l, call.pulse_list), l \in {3, 6})

\* what the code does: the same, except that the keys of the truncated
\* joint loop, which end in _trunc<n>, get joint = False
C26_JointLostUnderTrunc ==
    (call.fn = "main_ber" /\ pc = "returned") =>
        \A l \in 1..Len(DictNames) :
            ConfigColumns(ret.value[DictNames[l]])
                = RowsFor(BatchConfigs(l, call.pulse_list), l = 3)

C26_Reached ==
    /\ call.fn = "main_ber" /\ pc = "returned"
    /\ Len(ret.value.isi_cci_trunc_results) = 8
    /\ ret.value.isi_cci_trunc_results[1].trunc = 5
    /\ ~ret.value.isi_cci_trunc_results[1].joint
    /\ ret.value.isi_cci_results[1].joint

\* the frame handed to save_df_to_csv
SavedFrame == results_to_df(call.results)

\* the priority columns the written table has, in priority order
PriorityKept(cols) ==
    SelectSeq(priority, LAMBDA c : c \in {cols[j] : j \in 1..Len(cols)})

\* the rows are in ascending order of the columns by
RowsSorted(rows, by) ==
    \A k \in 1..(Len(rows) - 1) : ~Before(rows[k + 1], rows[k], by)

\* the columns written are those of the frame with a value in some row
EmptyColumnsDropped(df, cols) ==
    {cols[j] : j \in 1..Len(cols)}
        = {c \in {Columns(df)[j] : j \in 1..Len(Columns(df))} :
              \E k \in 1..Len(df) : ~IsNA(c, df[k][c])}

\* C28: the table save_df_to_csv writes has the columns snr, sir, alpha and L
\* that are present first, in that order, before all other columns; its rows
\* are sorted by those columns; columns that are None in every row are gone.
C28_PriorityColumnsFirst ==
    (call.fn = "save_df_to_csv" /\ pc = "returned") =>
        LET out == ret.value
            by  == PriorityKept(out.columns)
        IN  /\ SubSeq(out.columns, 1, Len(by)) = by
            /\ RowsSorted(out.rows, by)
            /\ EmptyColumnsDropped(SavedFrame, out.columns)

\* what the code does: rows sorted and empty columns dropped, the columns
\* left in the order the frame has them, pulse before snr
C28_SortedColumnsInPlace ==
    (call.fn = "save_df_to_csv" /\ pc = "returned") =>
        LET out == ret.value
            by  == PriorityKept(out.columns)
        IN  /\ out.columns
                  = SelectSeq(Columns(SavedFrame),
                              LAMBDA c : c \in {out.columns[j] : j \in 1..Len(out.columns)})
            /\ Len(out.rows) > 0 => out.columns[1] = "pulse" /\ out.columns[2] = "snr"
            /\ RowsSorted(out.rows, by)
            /\ {out.rows[k] : k \in 1..Len(out.rows)}
                  = {SavedFrame[k] : k \in 1..Len(SavedFrame)}
            /\ EmptyColumnsDropped(SavedFrame, out.columns)

C28_Reached ==
    /\ call.fn = "save_df_to_csv" /\ pc = "returned"
    /\ ret.value.columns = <<"pulse", "snr", "sir", "alpha", "L", "joint", "ber">>
    /\ Len(ret.value.rows) = 2
    /\ ret.value.rows # SavedFrame

\* the tables of the export in which the entry with key k has a row
TablesOf(k) ==
    {j \in 1..Len(ret.value) :
        \E r \in 1..Len(ret.value[j].rows) : ret.value[j].rows[r].key = k}

\* C30: for a mapping with keys <pulse>_SNR<snr>_alpha<alpha>_trunc<n>, every
\* entry is a row of exactly one table, the one of its own (trunc, snr), and
\* of no table of another truncation limit or SNR.
C30_EachEntryInItsOwnTable ==
    (call.fn = "export_flat_latex_table_truncated" /\ pc = "returned") =>
        \A e \in 1..Len(call.results) :
            LET own == Scan(call.results[e].key)
                in_ == TablesOf(call.results[e].key)
            IN  /\ Cardinality(in_) = 1
                /\ \A j \in in_ :
                      /\ ret.value[j].trunc = ParseInt(own.trunc)
                      /\ ret.value[j].snr = ParseFloat(own.snr)

\* what the code does: every entry is in the table of its own (trunc, snr),
\* once, and in the tables of its SNR whose truncation limit, written in
\* digits, begins the entry's own (trunc 1 for an entry of trunc 10)
C30_AlsoInPrefixTables ==
    (call.fn = "export_flat_latex_table_truncated" /\ pc = "returned") =>
        \A e \in 1..Len(call.results) :
            LET own == Scan(call.results[e].key)
            IN  \A j \in 1..Len(ret.value) :
                    (j \in TablesOf(call.results[e].key))
                        <=> /\ ret.value[j].snr = ParseFloat(own.snr)
                            /\ StartsWith(own.trunc, 1, IntStr(ret.value[j].trunc))

C30_Reached ==
    /\ call.fn = "export_flat_latex_table_truncated" /\ pc = "returned"
    /\ Len(ret.value) = 2
    /\ ret.value[1].trunc = 1 /\ ret.value[2].trunc = 10
    /\ Len(ret.value[1].rows) = 2 /\ Len(ret.value[2].rows) = 1
    /\ \E r \in 1..2 :
          ret.value[1].rows[r].key = "btrc_SNR10.0_alpha0.22_trunc10"

====
